---- MODULE Spec2Model ----
(***************************************************************************)
(* A model of wchisp, the host side of the WCH in-system programmer:       *)
(* the protocol codec (protocol.rs), the transport contract                *)
(* (transport/mod.rs), the chip catalog lookup (device.rs), the flashing   *)
(* engine (flashing.rs) and the Flash command of the CLI (main.rs).        *)
(*                                                                         *)
(* Bytes are naturals in 0..255, byte strings are sequences (1-based, so   *)
(* Rust's buf[i] is buf[i+1] here).  Every transfer is one step: the      *)
(* device's answer is an input of that step.                               *)
(***************************************************************************)
EXTENDS Integers, Sequences, FiniteSets, TLC

VARIABLES
    cli,                  \* entry point: "api", "flash" (main.rs), "codec", "catalog"
    pc,                   \* position of the host program
    err,                  \* the error message the program ended with ("" if none)
    chip,                 \* Flashing.chip
    chip_uid,             \* Flashing.chip_uid (raw bytes, as read)
    bootloader_version,   \* Flashing.bootloader_version
    code_flash_protected, \* Flashing.code_flash_protected
    identified,           \* the IDENTIFY reply payload the chip was resolved from
    key,                  \* local `key` of flash / verify / write_eeprom
    raw,                  \* the image handed to the running operation (main.rs: the file read)
    address,              \* local `address` of the running operation
    op,                   \* history: the operation of the engine that ran last
    tx,                   \* last request frame given to send_raw
    rx,                   \* last frame returned by recv_raw
    resp,                 \* last decoded Response
    sent,                 \* history: commands whose request frame was sent, in order
    opts,                 \* main.rs: the flags of the Flash command
    binary,               \* main.rs: the firmware read from the file, once padded
    arg,                  \* the argument of erase_code (sectors) or unprotect (force)
    current,              \* the register bytes a config operation read, before it edits them
    ret,                  \* local `ret` of dump_eeprom: the bytes read so far
    families,             \* ChipDB.families as ChipDB::load returned them
    events,               \* history: the send_raw and recv_raw calls made, in order
    port                  \* SerialTransport.serial_port: its rate, the bytes read and written

vars == <<cli, pc, err, chip, chip_uid, bootloader_version, code_flash_protected,
          identified, key, raw, address, op, tx, rx, resp, sent, opts, binary,
          arg, current, ret, families, events, port>>

-----------------------------------------------------------------------------
(* Bounds of the model *)

\* API images have 0 .. MaxImageLen bytes (two full pieces and a short one)
MaxImageLen == 113

\* the firmware file of the Flash command is empty or has FileLen bytes
FileLen == 1000

-----------------------------------------------------------------------------
(* constants.rs *)

MAX_PACKET_SIZE == 64
SECTOR_SIZE == 1024
CFG_MASK_RDPR_USER_DATA_WPR == 7
CFG_MASK_ALL == 31
IDENTIFY == 161
ISP_END == 162
ISP_KEY == 163
ERASE == 164
PROGRAM == 165
VERIFY == 166
READ_CONFIG == 167
WRITE_CONFIG == 168
DATA_ERASE == 169
DATA_PROGRAM == 170
DATA_READ == 171
SET_BAUD == 197

\* flashing.rs: const CHUNK of flash, write_eeprom and verify
CHUNK == 56

-----------------------------------------------------------------------------
(* Fixed-width arithmetic *)

Byte == 0..255

U8(n) == n % 256
U16(n) == n % 65536

\* bit n of a byte
Bit(a, n) == (a \div (2 ^ n)) % 2

\* ^ on 4-bit values, tabulated once
NibbleXor ==
    [a \in 0..15 |-> [b \in 0..15 |->
        ((Bit(a, 0) + Bit(b, 0)) % 2) + 2 * ((Bit(a, 1) + Bit(b, 1)) % 2)
        + 4 * ((Bit(a, 2) + Bit(b, 2)) % 2) + 8 * ((Bit(a, 3) + Bit(b, 3)) % 2)]]

\* u8 ^ u8
Xor8(a, b) == NibbleXor[a % 16][b % 16] + 16 * NibbleXor[a \div 16][b \div 16]

\* scroll pwrite_with(.., LE) of a u16 / u32
LE16(n) == <<n % 256, (n \div 256) % 256>>
LE32(n) == <<n % 256, (n \div 256) % 256, (n \div 65536) % 256, (n \div 16777216) % 256>>

\* scroll pread_with::<u16>(off, LE); off is the Rust (0-based) offset
ReadLE16(buf, off) == buf[off + 1] + 256 * buf[off + 2]

\* iter().fold(0_u8, |acc, &x| acc.overflowing_add(x).0)
RECURSIVE fold_add_u8(_, _)
fold_add_u8(acc, s) ==
    IF s = <<>> THEN acc ELSE fold_add_u8(U8(acc + Head(s)), Tail(s))

\* Rust slice buf[from..] and buf[from..to] with 0-based bounds
SliceFrom(buf, from) == SubSeq(buf, from + 1, Len(buf))
Slice(buf, from, to) == SubSeq(buf, from + 1, to)

Min(a, b) == IF a < b THEN a ELSE b

-----------------------------------------------------------------------------
(* protocol.rs: Command and its constructors *)

identify(device_id, device_type) ==
    [type |-> "Identify", device_id |-> device_id, device_type |-> device_type]
isp_end(reason) == [type |-> "IspEnd", reason |-> reason]
isp_key(k) == [type |-> "IspKey", key |-> k]
read_config(bit_mask) == [type |-> "ReadConfig", bit_mask |-> bit_mask]
write_config(bit_mask, data) == [type |-> "WriteConfig", bit_mask |-> bit_mask, data |-> data]
erase(sectors) == [type |-> "Erase", sectors |-> sectors]
program(addr, padding, data) ==
    [type |-> "Program", address |-> addr, padding |-> padding, data |-> data]
verify(addr, padding, data) ==
    [type |-> "Verify", address |-> addr, padding |-> padding, data |-> data]
data_read(addr, len) == [type |-> "DataRead", address |-> addr, len |-> len]
\* a DataProgram built as the Program it resembles
data_program_as_program(addr, padding, data) ==
    [type |-> "Program", address |-> addr, padding |-> padding, data |-> data]
data_program(addr, padding, data) ==
    [type |-> "DataProgram", address |-> addr, padding |-> padding, data |-> data]
data_erase(sectors) == [type |-> "DataErase", sectors |-> sectors]
set_baud(baudrate) == [type |-> "SetBaud", baudrate |-> baudrate]

\* b"MCU ISP & WCH.CN"
IdentifyMagic == <<77, 67, 85, 32, 73, 83, 80, 32, 38, 32, 87, 67, 72, 46, 67, 78>>

\* the Program / Verify / DataProgram arm of into_raw:
\* buf = [cmd, size(2), addr(4), padding, data..], size = buf.len() as u16 - 3
into_raw_chunk(cmdbyte, cmd) ==
    <<cmdbyte>> \o LE16(U16(U16(8 + Len(cmd.data)) - 3)) \o LE32(cmd.address)
        \o <<cmd.padding>> \o cmd.data

\* Command::into_raw
into_raw(cmd) ==
    CASE cmd.type = "Identify" ->
            <<IDENTIFY, 18, 0, cmd.device_id, cmd.device_type>> \o IdentifyMagic
      [] cmd.type = "IspEnd" -> <<ISP_END, 1, 0, cmd.reason>>
      [] cmd.type = "IspKey" -> <<ISP_KEY, U8(Len(cmd.key)), 0>> \o cmd.key
      [] cmd.type = "Erase" -> <<ERASE, 4, 0>> \o LE32(cmd.sectors)
      [] cmd.type = "Program" -> into_raw_chunk(PROGRAM, cmd)
      [] cmd.type = "Verify" -> into_raw_chunk(VERIFY, cmd)
      [] cmd.type = "ReadConfig" -> <<READ_CONFIG, 2, 0, cmd.bit_mask, 0>>
      [] cmd.type = "WriteConfig" ->
            <<WRITE_CONFIG>> \o LE16(U16(1 + U16(Len(cmd.data)))) \o <<cmd.bit_mask, 0>>
                \o cmd.data
      [] cmd.type = "DataRead" ->
            <<DATA_READ, 6, 0>> \o LE32(cmd.address) \o LE16(cmd.len)
      [] cmd.type = "DataProgram" -> into_raw_chunk(DATA_PROGRAM, cmd)
      [] cmd.type = "DataErase" -> <<DATA_ERASE, 5, 0, 0, 0, 0, 0, U8(cmd.sectors)>>
      [] cmd.type = "SetBaud" -> <<SET_BAUD, 4, 0>> \o LE32(cmd.baudrate)

-----------------------------------------------------------------------------
(* protocol.rs: Response *)

NoResp == [tag |-> "None", code |-> 0, payload |-> <<>>]
ResponseOk(data) == [tag |-> "Ok", code |-> 0, payload |-> data]
ResponseErr(code, data) == [tag |-> "Err", code |-> code, payload |-> data]

is_ok(r) == r.tag = "Ok"
payload(r) == r.payload

\* Response::from_raw: the status byte raw[1] is not looked at (`if true`);
\* pread_with::<u16>(2) fails on a frame of fewer than 4 bytes
from_raw(frame) ==
    IF Len(frame) < 4 THEN [st |-> "err", msg |-> "bad offset", resp |-> NoResp]
    ELSE LET len == ReadLE16(frame, 2)
             remain == SliceFrom(frame, 4)
         IN  IF Len(remain) = len
             THEN [st |-> "ok", msg |-> "", resp |-> ResponseOk(remain)]
             ELSE [st |-> "err", msg |-> "Invalid response", resp |-> NoResp]

-----------------------------------------------------------------------------
(* transport/mod.rs: Transport::transfer_with_wait                          *)
(* io is what the transport does for this round trip: whether send_raw     *)
(* succeeds, whether recv_raw succeeds and the frame it returns.           *)

IoSendErr == [send_ok |-> FALSE, recv_ok |-> FALSE, frame |-> <<>>]
IoRecvErr == [send_ok |-> TRUE, recv_ok |-> FALSE, frame |-> <<>>]
IoFrame(f) == [send_ok |-> TRUE, recv_ok |-> TRUE, frame |-> f]

\* transfer_with_wait without its ensure!(req[0] == resp[0])
transfer_with_wait_unchecked(cmd, io) ==
    IF ~io.send_ok THEN [st |-> "err", msg |-> "send_raw failed", resp |-> NoResp]
    ELSE IF ~io.recv_ok THEN [st |-> "err", msg |-> "recv_raw failed", resp |-> NoResp]
    ELSE from_raw(io.frame)

transfer_with_wait(cmd, io) ==
    LET req == into_raw(cmd) IN
    IF ~io.send_ok THEN [st |-> "err", msg |-> "send_raw failed", resp |-> NoResp]
    ELSE IF ~io.recv_ok THEN [st |-> "err", msg |-> "recv_raw failed", resp |-> NoResp]
    ELSE IF Len(io.frame) = 0
         THEN [st |-> "panic", msg |-> "index out of bounds", resp |-> NoResp]
    ELSE IF req[1] # io.frame[1]
         THEN [st |-> "err", msg |-> "response command type mismatch", resp |-> NoResp]
    ELSE from_raw(io.frame)

\* Transport::transfer
transfer(cmd, io) == transfer_with_wait(cmd, io)

-----------------------------------------------------------------------------
(* device.rs: the catalog.  The device records (devices/*.yaml) are data;  *)
(* a small catalog stands for them here.                                   *)

NoChip ==
    [name |-> "", chip_id |-> 0, alt_chip_ids |-> <<>>, mcu_type |-> 0, device_type |-> 0,
     flash_size |-> 0, eeprom_size |-> 0, eeprom_start_addr |-> 0,
     support_net |-> "None", support_usb |-> "None", support_serial |-> "None",
     config_registers |-> <<>>]

\* a variant as deserialized: mcu_type, device_type default to 0, flags to None
Variant(name, chip_id, alts, flash_size, eeprom_size) ==
    [NoChip EXCEPT !.name = name, !.chip_id = chip_id, !.alt_chip_ids = alts,
                   !.flash_size = flash_size, !.eeprom_size = eeprom_size]

\* a config register; a u32 value is its 4 little-endian bytes, None is <<>>
Register(offset, name, reset, enable_debug, disable_debug) ==
    [offset |-> offset, name |-> name, reset |-> reset,
     enable_debug |-> enable_debug, disable_debug |-> disable_debug, fields |-> <<>>]

\* a bit field of a register: bit_range as the record gives it (a Vec<u8>)
RegisterField(bit_range, name) == [bit_range |-> bit_range, name |-> name]

RegistersV30x ==
    << Register(0, "RDPR_USER", <<165, 90, 255, 0>>, <<165, 90, 63, 192>>,
                <<165, 90, 47, 208>>),
       Register(4, "DATA", <<255, 0, 255, 0>>, <<>>, <<>>),
       Register(8, "WPR", <<255, 255, 255, 255>>, <<>>, <<>>) >>

\* a variant's own register list
RegistersV208 ==
    << Register(0, "RDPR_USER", <<165, 90, 63, 192>>, <<>>, <<>>) >>

\* parse_alt_chip_id_or_all_marker: "all" expands to (0..=0xff)
AllIds == [i \in 1..256 |-> i - 1]

Families ==
    << [name |-> "CH56x Series", mcu_type |-> 0, device_type |-> 16,
        support_usb |-> "true", support_serial |-> "true", support_net |-> "false",
        variants |-> << Variant("CH569", 105, <<>>, 458752, 32768) >>,
        config_registers |-> <<>>],
       [name |-> "CH55x Series", mcu_type |-> 1, device_type |-> 17,
        support_usb |-> "true", support_serial |-> "true", support_net |-> "false",
        variants |-> << Variant("CH552", 82, <<>>, 14336, 128) >>,
        config_registers |-> <<>>],
       [name |-> "CH32V30x Series", mcu_type |-> 7, device_type |-> 23,
        support_usb |-> "true", support_serial |-> "true", support_net |-> "false",
        variants |-> << Variant("CH32V307", 112, <<113>>, 262144, 0),
                        Variant("CH32V305", 105, <<>>, 131072, 0) >>,
        config_registers |-> RegistersV30x],
       [name |-> "CH32V20x Series", mcu_type |-> 9, device_type |-> 25,
        support_usb |-> "true", support_serial |-> "true", support_net |-> "false",
        variants |-> << [Variant("CH32V208", 128, <<129, 130>>, 131072, 0) EXCEPT
                            !.support_net = "true",
                            !.support_serial = "false",
                            !.config_registers = RegistersV208],
                        Variant("CH32V203", 48, <<130, 49>>, 65536, 0) >>,
        config_registers |-> RegistersV30x],
       [name |-> "CH32X03x Series", mcu_type |-> 19, device_type |-> 35,
        support_usb |-> "true", support_serial |-> "true", support_net |-> "None",
        variants |-> << Variant("CH32X035", 80, <<>>, 63488, 0),
                        Variant("CH32X033", 90, AllIds, 63488, 0) >>,
        config_registers |-> <<>>] >>

\* Iterator::find: the first of the indexes that satisfy the predicate, 0 when none
FirstIndex(hits) ==
    IF hits = {} THEN 0 ELSE CHOOSE i \in hits : \A j \in hits : i <= j

Contains(s, x) == \E i \in 1..Len(s) : s[i] = x

\* a find_chip that returns the variant under its own primary id
find_chip_keeps_primary_id(chip_id, device_type) ==
    LET fi == FirstIndex({i \in 1..Len(Families) : Families[i].device_type = device_type})
    IN  IF fi = 0 THEN [ok |-> FALSE, msg |-> "Device type not found", chip |-> NoChip]
        ELSE
        LET family == Families[fi]
            IsChip(c) == c.chip_id = chip_id \/ Contains(c.alt_chip_ids, chip_id)
            ci == FirstIndex({i \in 1..Len(family.variants) : IsChip(family.variants[i])})
        IN  IF ci = 0 THEN [ok |-> FALSE, msg |-> "Cannot find chip", chip |-> NoChip]
            ELSE
            LET c == family.variants[ci] IN
            [ok |-> TRUE, msg |-> "",
             chip |-> [c EXCEPT
                !.mcu_type = family.mcu_type,
                !.device_type = family.device_type,
                !.support_net = IF c.support_net = "None" THEN family.support_net ELSE @,
                !.support_usb = IF c.support_usb = "None" THEN family.support_usb ELSE @,
                !.support_serial =
                    IF c.support_serial = "None" THEN family.support_serial ELSE @,
                !.config_registers =
                    IF c.config_registers = <<>> THEN family.config_registers ELSE @]]

\* ChipDB::find_chip, db being self.families
find_chip_in(db, chip_id, device_type) ==
    LET fi == FirstIndex({i \in 1..Len(db) : db[i].device_type = device_type})
    IN  IF fi = 0 THEN [ok |-> FALSE, msg |-> "Device type not found", chip |-> NoChip]
        ELSE
        LET family == db[fi]
            IsChip(c) == c.chip_id = chip_id \/ Contains(c.alt_chip_ids, chip_id)
            ci == FirstIndex({i \in 1..Len(family.variants) : IsChip(family.variants[i])})
        IN  IF ci = 0 THEN [ok |-> FALSE, msg |-> "Cannot find chip", chip |-> NoChip]
            ELSE
            LET c == family.variants[ci] IN
            [ok |-> TRUE, msg |-> "",
             chip |-> [c EXCEPT
                !.mcu_type = family.mcu_type,
                !.device_type = family.device_type,
                !.chip_id = chip_id,
                !.support_net = IF c.support_net = "None" THEN family.support_net ELSE @,
                !.support_usb = IF c.support_usb = "None" THEN family.support_usb ELSE @,
                !.support_serial =
                    IF c.support_serial = "None" THEN family.support_serial ELSE @,
                !.config_registers =
                    IF c.config_registers = <<>> THEN family.config_registers ELSE @]]

\* ChipDB::find_chip of the catalog that is built in
find_chip(chip_id, device_type) == find_chip_in(Families, chip_id, device_type)

\* RegisterField::validate
RegisterField_validate(field) ==
    IF Len(field.bit_range) # 2 THEN "Invalid bit range"
    ELSE IF field.bit_range[1] < field.bit_range[2] THEN "Invalid bit range"
    ELSE ""

\* the first error of a sequence of validation results ("" is Ok)
FirstError(results) ==
    LET bad == FirstIndex({i \in 1..Len(results) : results[i] # ""})
    IN  IF bad = 0 THEN "" ELSE results[bad]

\* ConfigRegister::validate
ConfigRegister_validate(reg) ==
    IF reg.offset % 4 # 0 THEN "Config register offset must be 4-byte aligned"
    ELSE FirstError([i \in 1..Len(reg.fields) |-> RegisterField_validate(reg.fields[i])])

\* Chip::validate
Chip_validate(c) ==
    FirstError([i \in 1..Len(c.config_registers) |->
                    ConfigRegister_validate(c.config_registers[i])])

\* ChipFamily::validate: the variants, then the family's registers
ChipFamily_validate(family) ==
    LET of_variants == FirstError([i \in 1..Len(family.variants) |->
                                       Chip_validate(family.variants[i])])
    IN  IF of_variants # "" THEN of_variants
        ELSE FirstError([i \in 1..Len(family.config_registers) |->
                             ConfigRegister_validate(family.config_registers[i])])

\* ChipDB::load on the parsed device records: every family is validated
load(records) ==
    LET e == FirstError([i \in 1..Len(records) |-> ChipFamily_validate(records[i])])
    IN  IF e # "" THEN [ok |-> FALSE, msg |-> e, families |-> <<>>]
        ELSE [ok |-> TRUE, msg |-> "", families |-> records]

\* Chip::device_type without the 0x10 offset
device_type_no_offset(c) == c.mcu_type

\* Chip::device_type(): mcu_type + 0x10 in u8
device_type(c) == U8(c.mcu_type + 16)

\* a minimum that forgets the 4 sectors of device type 0x10
min_erase_sector_number_always_8(c) == 8

\* Chip::min_erase_sector_number
min_erase_sector_number(c) == IF device_type(c) = 16 THEN 4 ELSE 8

\* uid_size that forgets the 4-byte UID of device type 0x11
uid_size_always_8(c) == 8

\* Chip::uid_size
uid_size(c) == IF device_type(c) = 17 THEN 4 ELSE 8

\* support_code_flash_protect that admits every device type
support_code_flash_protect_any(c) == TRUE

\* Chip::support_code_flash_protect
support_code_flash_protect(c) == device_type(c) \in {20, 21, 23, 24, 25, 32}

-----------------------------------------------------------------------------
(* flashing.rs: pure parts of the engine *)

\* Flashing::chip_uid(): &self.chip_uid[..uid_size]; panics on a shorter vector
chip_uid_panics(c, uid) == Len(uid) < uid_size(c)
chip_uid_of(c, uid) == SubSeq(uid, 1, uid_size(c))

\* a key whose last byte does not take the chip id in
xor_key_without_chip_id(c, uid) ==
    LET checksum == fold_add_u8(0, chip_uid_of(c, uid))
    IN  [i \in 1..8 |-> checksum]

\* Flashing::xor_key
xor_key(c, uid) ==
    LET checksum == fold_add_u8(0, chip_uid_of(c, uid))
    IN  [i \in 1..8 |-> IF i = 8 THEN U8(checksum + c.chip_id) ELSE checksum]

\* key.iter().fold(0_u8, ..) of flash and verify
key_checksum(k) == fold_add_u8(0, k)

\* check_chip_uid adding the three words without wrapping to 16 bits
check_chip_uid_unwrapped(c, uid) ==
    IF uid_size(c) = 8
    THEN IF chip_uid_panics(c, uid) THEN "panic"
         ELSE LET r == chip_uid_of(c, uid)
              IN  IF ReadLE16(r, 0) + ReadLE16(r, 2) + ReadLE16(r, 4) = ReadLE16(r, 6)
                  THEN "ok" ELSE "err"
    ELSE "ok"

\* Flashing::check_chip_uid
check_chip_uid(c, uid) ==
    IF uid_size(c) = 8
    THEN IF chip_uid_panics(c, uid) THEN "panic"
         ELSE LET r == chip_uid_of(c, uid)
                  checked == U16(U16(ReadLE16(r, 0) + ReadLE16(r, 2)) + ReadLE16(r, 4))
                                 = ReadLE16(r, 6)
              IN  IF checked THEN "ok" ELSE "err"
    ELSE "ok"

\* a verify_chunk that accepts every reply
verify_matches_any(p) == TRUE

\* verify_chunk: ensure!(resp.payload()[0] == 0x00, "Verify failed, mismatch")
verify_matches(p) == p[1] = 0

\* the XOR taking the key byte after the one it should
xored_shifted(ch, k) == [i \in 1..Len(ch) |-> Xor8(ch[i], k[(i % 8) + 1])]

\* raw.iter().enumerate().map(|(i, x)| x ^ key[i % 8]) of the *_chunk functions
xored(ch, k) == [i \in 1..Len(ch) |-> Xor8(ch[i], k[((i - 1) % 8) + 1])]

\* pieces of CHUNK + 1 bytes
chunk_at_one_more(image, off) == SubSeq(image, off + 1, Min(off + CHUNK + 1, Len(image)))

\* the piece raw.chunks(CHUNK) yields at offset off
chunk_at(image, off) == SubSeq(image, off + 1, Min(off + CHUNK, Len(image)))

\* a padding that adds a whole sector to an image that ends on a sector boundary
extend_firmware_always(buf) ==
    buf \o [i \in 1..(SECTOR_SIZE - (Len(buf) % SECTOR_SIZE)) |-> 0]

\* main.rs: extend_firmware_to_sector_boundary
extend_firmware_to_sector_boundary(buf) ==
    IF Len(buf) % SECTOR_SIZE # 0
    THEN buf \o [i \in 1..(SECTOR_SIZE - (Len(buf) % SECTOR_SIZE)) |-> 0]
    ELSE buf

-----------------------------------------------------------------------------
(* The device and the transport: what a round trip can bring back *)

Frame(cmdbyte, status, data) == <<cmdbyte, status>> \o LE16(Len(data)) \o data

\* a status byte other than 0x00
StatusOther == 130

\* every outcome of one round trip for command byte c: a transport error, the
\* device answering with one of `payloads`, answering `other` under a non-zero
\* status, answering to another command, a frame whose length field is wrong, an
\* empty frame
Replies(c, payloads, other) ==
    {IoSendErr, IoRecvErr}
    \cup {IoFrame(Frame(c, 0, p)) : p \in payloads}
    \cup {IoFrame(Frame(c, StatusOther, other))}
    \cup {IoFrame(Frame(U8(c + 1), 0, <<0, 0>>)),
          IoFrame(<<c, 0, 3, 0, 0, 0>>),
          IoFrame(<<>>)}

Image(n) == [i \in 1..n |-> (i * 37 + 11) % 256]
ImageLens == {0, 1, CHUNK, CHUNK + 1, 2 * CHUNK, MaxImageLen}
ApiImages == {Image(n) : n \in ImageLens}
FlashFiles == {<<>>, Image(FileLen)}

IdentifyPayloads == {<<105, 23>>, <<113, 23>>, <<82, 17>>, <<105, 16>>, <<2, 23>>, <<1, 66>>}

\* READ_CONFIG(0x1f) reply: echo, RDPR nRDPR USER nUSER, DATA, WPR, BTVER, UID
ConfigPayload(rdpr, uid) ==
    <<31, 0, rdpr, 255 - rdpr, 255, 0, 255, 0, 255, 0, 255, 255, 255, 255, 0, 2, 7, 0>> \o uid
\* unprotected with a good UID, protected with a good UID whose word sum wraps,
\* protected with a UID whose word sum does not match
ConfigPayloads ==
    { ConfigPayload(165, <<1, 2, 3, 4, 5, 6, 9, 12>>),
      ConfigPayload(58, <<170, 187, 204, 221, 238, 255, 100, 153>>),
      ConfigPayload(58, <<170, 187, 204, 221, 238, 255, 0, 17>>) }

AckPayloads == {<<0, 0>>}
VerifyPayloads == {<<0, 0>>, <<255, 0>>}
KeyPayloads(k) == {<<key_checksum(k), 0>>, <<U8(key_checksum(k) + 1), 0>>}

\* rand::random() of the *_chunk functions
Paddings == {28, 227}

-----------------------------------------------------------------------------
(* Bookkeeping shared by the steps *)

\* the session runs over a transport that is not looked into (USB or serial)
NoPort == [baud_rate |-> 0, incoming |-> <<>>, written |-> <<>>]

\* the command as the history keeps it: without its random padding byte
Logged(cmd) == [f \in (DOMAIN cmd) \ {"padding"} |-> cmd[f]]

\* a transfer that sends and does not wait for the reply
transport_calls_no_recv(io) == <<[call |-> "send_raw", ok |-> io.send_ok]>>

\* Transport::transfer_with_wait: the calls it makes on the transport, with their
\* outcome: send_raw, and recv_raw once send_raw has returned Ok
transport_calls(io) ==
    IF io.send_ok THEN <<[call |-> "send_raw", ok |-> TRUE],
                         [call |-> "recv_raw", ok |-> io.recv_ok]>>
    ELSE <<[call |-> "send_raw", ok |-> FALSE]>>

RoundTrip(cmd, io, r) ==
    /\ tx' = into_raw(cmd)
    /\ rx' = IF io.send_ok /\ io.recv_ok THEN io.frame ELSE <<>>
    /\ resp' = r.resp
    /\ sent' = IF io.send_ok THEN Append(sent, Logged(cmd)) ELSE sent
    /\ events' = events \o transport_calls(io)
    /\ port' = port

\* an error that is noted while the operation stays where it is, to try again
Fail_and_retry(msg) == pc' = pc /\ err' = msg

\* return Err(..) / the ? operator: the operation ends with the error
Fail(msg) == pc' = "failed" /\ err' = msg
Panic(msg) == pc' = "panicked" /\ err' = msg
Stop(r) == IF r.st = "panic" THEN Panic(r.msg) ELSE Fail(r.msg)

\* the flags of `wchisp flash`; a flag is given a value where main first tests it
\* ("unread" until then), which leaves the runs of each combination as they are
Flag == {"true", "false"}
NoOpts == [no_erase |-> "unread", no_verify |-> "unread", no_reset |-> "unread"]

InitSession ==
    /\ err = ""
    /\ chip = NoChip
    /\ chip_uid = <<>>
    /\ bootloader_version = <<0, 0, 0, 0>>
    /\ code_flash_protected = FALSE
    /\ identified = <<>>
    /\ key = <<>>
    /\ raw = <<>>
    /\ address = 0
    /\ op = "open"
    /\ tx = <<>>
    /\ rx = <<>>
    /\ resp = NoResp
    /\ sent = <<>>
    /\ binary = <<>>
    /\ arg = 0
    /\ current = <<>>
    /\ ret = <<>>
    /\ families = <<>>
    /\ events = <<>>
    /\ port = NoPort

session == <<chip, chip_uid, bootloader_version, code_flash_protected, identified>>
locals == <<key, raw, address, op>>
scratch == <<arg, current, ret, families>>
wire == <<events, port>>

-----------------------------------------------------------------------------
(* Flashing::new_from_transport *)

\* let resp = transport.transfer(Command::identify(0, 0))?; ensure!(resp.is_ok())
OpenIdentify ==
    /\ pc = "open_identify"
    /\ \E io \in Replies(IDENTIFY, IdentifyPayloads, <<105, 23>>) :
        LET cmd == identify(0, 0)
            r == transfer(cmd, io)
        IN  /\ RoundTrip(cmd, io, r)
            /\ IF r.st # "ok" THEN Stop(r)
               ELSE IF ~is_ok(r.resp) THEN Fail("idenfity chip failed")
               ELSE pc' = "open_get_chip" /\ err' = err
    /\ UNCHANGED <<cli, scratch, session, locals, opts, binary>>

\* Flashing::get_chip: a second IDENTIFY, then ChipDB::find_chip on its reply
OpenGetChip ==
    /\ pc = "open_get_chip"
    /\ \E io \in Replies(IDENTIFY, IdentifyPayloads, <<105, 23>>) :
        LET cmd == identify(0, 0)
            r == transfer(cmd, io)
            p == payload(r.resp)
            found == find_chip(p[1], p[2])
        IN  /\ RoundTrip(cmd, io, r)
            /\ IF r.st # "ok" THEN Stop(r) /\ UNCHANGED <<chip, identified>>
               ELSE IF Len(p) < 2
                    THEN Panic("index out of bounds") /\ UNCHANGED <<chip, identified>>
               ELSE IF ~found.ok THEN Fail(found.msg) /\ UNCHANGED <<chip, identified>>
               ELSE /\ chip' = found.chip
                    /\ identified' = <<p[1], p[2]>>
                    /\ pc' = "open_read_config"
                    /\ err' = err
    /\ UNCHANGED <<cli, scratch, chip_uid, bootloader_version, code_flash_protected, locals,
                   opts, binary>>

\* READ_CONFIG(CFG_MASK_ALL), the session fields, check_chip_uid
OpenReadConfig ==
    /\ pc = "open_read_config"
    /\ \E io \in Replies(READ_CONFIG, ConfigPayloads, ConfigPayload(58, <<1, 2, 3, 4, 5, 6, 9, 12>>)) :
        LET cmd == read_config(CFG_MASK_ALL)
            r == transfer(cmd, io)
            p == payload(r.resp)
            uid == SliceFrom(p, 18)
            checked == check_chip_uid(chip, uid)
        IN  /\ RoundTrip(cmd, io, r)
            /\ IF r.st # "ok"
               THEN Stop(r) /\ UNCHANGED <<chip_uid, bootloader_version, code_flash_protected>>
               ELSE IF ~is_ok(r.resp)
               THEN Fail("read_config failed")
                    /\ UNCHANGED <<chip_uid, bootloader_version, code_flash_protected>>
               ELSE IF Len(p) < 18
               THEN Panic("index out of bounds")
                    /\ UNCHANGED <<chip_uid, bootloader_version, code_flash_protected>>
               ELSE /\ code_flash_protected' =
                            (support_code_flash_protect(chip) /\ p[3] # 165)
                    /\ bootloader_version' = Slice(p, 14, 18)
                    /\ chip_uid' = uid
                    /\ CASE checked = "ok" -> pc' = "ready" /\ err' = err
                         [] checked = "err" -> Fail("Chip UID checksum failed!")
                         [] OTHER -> Panic("index out of bounds")
    /\ UNCHANGED <<cli, scratch, chip, identified, locals, opts, binary>>

-----------------------------------------------------------------------------
(* Where the program goes when an operation returns Ok: a library call     *)
(* ends the run, the Flash command of main.rs goes on to its next stage.   *)

\* main.rs: `if *no_verify {..} else {verify}` then `if *no_reset {..} else {reset}`
AfterFlash ==
    IF cli = "api" THEN pc' = "done" /\ opts' = opts
    ELSE \E no_verify \in Flag, no_reset \in Flag \cup {"unread"} :
            /\ (no_verify = "false") <=> (no_reset = "unread")
            /\ opts' = [opts EXCEPT !.no_verify = no_verify, !.no_reset = no_reset]
            /\ pc' = IF no_verify = "false" THEN "verify_isp_key"
                     ELSE IF no_reset = "false" THEN "reset" ELSE "done"

\* main.rs: `if *no_reset {..} else {reset}`
AfterVerify ==
    IF cli = "api" THEN pc' = "done" /\ opts' = opts
    ELSE \E no_reset \in Flag :
            /\ opts' = [opts EXCEPT !.no_reset = no_reset]
            /\ pc' = IF no_reset = "false" THEN "reset" ELSE "done"

-----------------------------------------------------------------------------
(* Flashing::flash *)

\* key, key_checksum, ISP_KEY with 0x1e zero bytes, the two ensure!s
FlashIspKey(B) ==
    LET k == xor_key(chip, chip_uid) IN
    IF chip_uid_panics(chip, chip_uid)
    THEN Panic("index out of bounds") /\ UNCHANGED <<tx, rx, resp, sent, wire, locals>>
    ELSE \E io \in Replies(ISP_KEY, KeyPayloads(k), <<key_checksum(k), 0>>) :
        LET cmd == isp_key([i \in 1..30 |-> 0])
            r == transfer(cmd, io)
            p == payload(r.resp)
        IN  /\ RoundTrip(cmd, io, r)
            /\ key' = k
            /\ raw' = B
            /\ address' = 0
            /\ op' = "flash"
            /\ IF r.st # "ok" THEN Stop(r)
               ELSE IF ~is_ok(r.resp) THEN Fail("isp_key failed")
               ELSE IF Len(p) < 1 THEN Panic("index out of bounds")
               ELSE IF p[1] # key_checksum(k) THEN Fail("isp_key checksum failed")
               ELSE pc' = "flash_chunk" /\ err' = err

\* a library call flash(B) on the open session
FlashApi ==
    /\ pc = "ready" /\ cli = "api"
    /\ \E B \in ApiImages : FlashIspKey(B)
    /\ UNCHANGED <<cli, scratch, session, opts, binary>>

\* main.rs: flashing.flash(&binary)
FlashCmd ==
    /\ pc = "flash_isp_key"
    /\ FlashIspKey(binary)
    /\ UNCHANGED <<cli, scratch, session, opts, binary>>

\* Flashing::flash_chunk(address, ch, key) for the next piece of raw.chunks(CHUNK)
FlashChunk ==
    /\ pc = "flash_chunk"
    /\ address < Len(raw)
    /\ LET ch == chunk_at(raw, address)
           data == xored(ch, key)
       IN
       \E io \in Replies(PROGRAM, AckPayloads, <<0, 0>>), padding \in Paddings :
        LET cmd == program(address, padding, data)
            r == transfer_with_wait(cmd, io)
        IN  /\ RoundTrip(cmd, io, r)
            /\ IF r.st # "ok" THEN Stop(r) /\ address' = address
               ELSE IF ~is_ok(r.resp) THEN Fail("program failed") /\ address' = address
               ELSE /\ address' = address + Len(ch)
                    /\ pc' = pc
                    /\ err' = err
    /\ UNCHANGED <<cli, scratch, session, key, raw, op, opts, binary>>

\* the write of empty data that ends flash
FlashFinal ==
    /\ pc = "flash_chunk"
    /\ address >= Len(raw)
    /\ \E io \in Replies(PROGRAM, AckPayloads, <<0, 0>>), padding \in Paddings :
        LET cmd == program(address, padding, xored(<<>>, key))
            r == transfer_with_wait(cmd, io)
        IN  /\ RoundTrip(cmd, io, r)
            /\ IF r.st # "ok" THEN Stop(r) /\ opts' = opts
               ELSE IF ~is_ok(r.resp) THEN Fail("program failed") /\ opts' = opts
               ELSE AfterFlash /\ err' = err
    /\ UNCHANGED <<cli, scratch, session, locals, binary>>

-----------------------------------------------------------------------------
(* Flashing::verify *)

VerifyIspKey(B) ==
    LET k == xor_key(chip, chip_uid) IN
    IF chip_uid_panics(chip, chip_uid)
    THEN Panic("index out of bounds") /\ UNCHANGED <<tx, rx, resp, sent, wire, locals, opts>>
    ELSE \E io \in Replies(ISP_KEY, KeyPayloads(k), <<key_checksum(k), 0>>) :
        LET cmd == isp_key([i \in 1..30 |-> 0])
            r == transfer(cmd, io)
            p == payload(r.resp)
        IN  /\ RoundTrip(cmd, io, r)
            /\ key' = k
            /\ raw' = B
            /\ address' = 0
            /\ op' = "verify"
            /\ IF r.st # "ok" THEN Stop(r) /\ opts' = opts
               ELSE IF ~is_ok(r.resp) THEN Fail("isp_key failed") /\ opts' = opts
               ELSE IF Len(p) < 1 THEN Panic("index out of bounds") /\ opts' = opts
               ELSE IF p[1] # key_checksum(k)
                    THEN Fail("isp_key checksum failed") /\ opts' = opts
               ELSE IF Len(B) = 0 THEN AfterVerify /\ err' = err
               ELSE pc' = "verify_chunk" /\ err' = err /\ opts' = opts

\* a library call verify(B) on the open session
VerifyApi ==
    /\ pc = "ready" /\ cli = "api"
    /\ \E B \in ApiImages : VerifyIspKey(B)
    /\ UNCHANGED <<cli, scratch, session, binary>>

\* main.rs: flashing.verify(&binary)
VerifyCmd ==
    /\ pc = "verify_isp_key"
    /\ VerifyIspKey(binary)
    /\ UNCHANGED <<cli, scratch, session, binary>>

\* Flashing::verify_chunk(address, ch, key) for the next piece
VerifyChunk ==
    /\ pc = "verify_chunk"
    /\ address < Len(raw)
    /\ LET ch == chunk_at(raw, address)
           data == xored(ch, key)
       IN
       \E io \in Replies(VERIFY, VerifyPayloads, <<0, 0>>), padding \in Paddings :
        LET cmd == verify(address, padding, data)
            r == transfer(cmd, io)
            p == payload(r.resp)
        IN  /\ RoundTrip(cmd, io, r)
            /\ IF r.st # "ok" THEN Stop(r) /\ UNCHANGED <<address, opts>>
               ELSE IF ~is_ok(r.resp)
                    THEN Fail("verify response failed") /\ UNCHANGED <<address, opts>>
               ELSE IF Len(p) < 1
                    THEN Panic("index out of bounds") /\ UNCHANGED <<address, opts>>
               ELSE IF ~verify_matches(p)
                    THEN Fail("Verify failed, mismatch") /\ UNCHANGED <<address, opts>>
               ELSE /\ address' = address + Len(ch)
                    /\ err' = err
                    /\ IF address + Len(ch) < Len(raw)
                       THEN pc' = pc /\ opts' = opts
                       ELSE AfterVerify
    /\ UNCHANGED <<cli, scratch, session, key, raw, op, binary>>

-----------------------------------------------------------------------------
(* Flashing::write_eeprom *)

\* the ISP_KEY exchange of write_eeprom: the checksum comparison is commented out
EepromIspKey(D) ==
    LET k == xor_key(chip, chip_uid) IN
    IF chip_uid_panics(chip, chip_uid)
    THEN Panic("index out of bounds") /\ UNCHANGED <<tx, rx, resp, sent, wire, locals>>
    ELSE \E io \in Replies(ISP_KEY, KeyPayloads(k), <<key_checksum(k), 0>>) :
        LET cmd == isp_key([i \in 1..30 |-> 0])
            r == transfer(cmd, io)
        IN  /\ RoundTrip(cmd, io, r)
            /\ key' = k
            /\ raw' = D
            /\ address' = 0
            /\ op' = "write_eeprom"
            /\ IF r.st # "ok" THEN Stop(r)
               ELSE IF ~is_ok(r.resp) THEN Fail("isp_key failed")
               ELSE pc' = "eeprom_chunk" /\ err' = err

\* a library call write_eeprom(D) on the open session
WriteEepromApi ==
    /\ pc = "ready" /\ cli = "api"
    /\ \E D \in ApiImages : EepromIspKey(D)
    /\ UNCHANGED <<cli, scratch, session, opts, binary>>

\* Flashing::write_data_chunk(address, ch, key) for the next piece
WriteDataChunk ==
    /\ pc = "eeprom_chunk"
    /\ address < Len(raw)
    /\ LET ch == chunk_at(raw, address)
           data == xored(ch, key)
       IN
       \E io \in Replies(DATA_PROGRAM, AckPayloads, <<0, 0>>), padding \in Paddings :
        LET cmd == data_program(address, padding, data)
            r == transfer_with_wait(cmd, io)
        IN  /\ RoundTrip(cmd, io, r)
            /\ IF r.st # "ok" THEN Stop(r) /\ address' = address
               ELSE IF ~is_ok(r.resp) THEN Fail("program data failed") /\ address' = address
               ELSE /\ address' = address + Len(ch)
                    /\ pc' = pc
                    /\ err' = err
    /\ UNCHANGED <<cli, scratch, session, key, raw, op, opts, binary>>

\* the flash_chunk of empty data that ends write_eeprom
WriteEepromFinal ==
    /\ pc = "eeprom_chunk"
    /\ address >= Len(raw)
    /\ \E io \in Replies(PROGRAM, AckPayloads, <<0, 0>>), padding \in Paddings :
        LET cmd == program(address, padding, xored(<<>>, key))
            r == transfer_with_wait(cmd, io)
        IN  /\ RoundTrip(cmd, io, r)
            /\ IF r.st # "ok" THEN Stop(r)
               ELSE IF ~is_ok(r.resp) THEN Fail("program failed")
               ELSE pc' = "done" /\ err' = err
    /\ UNCHANGED <<cli, scratch, session, locals, opts, binary>>

-----------------------------------------------------------------------------
(* Flashing::unprotect *)

\* READ_CONFIG(0x07) reply payloads: echo and the 12 register bytes (4 x u32);
\* one reply is cut short, one goes on with BTVER and UID as if the mask were 0x1f
RegisterBytes ==
    { <<58, 197, 11, 22, 33, 44, 55, 66, 1, 2, 3, 4>>,
      <<165, 90, 63, 192, 255, 0, 255, 0, 255, 255, 255, 255>> }
RegisterPayloads ==
    {<<7, 0>> \o b : b \in RegisterBytes}
    \cup {<<7, 0, 58>>,
          <<7, 0, 58, 197, 11, 22, 33, 44, 55, 66, 1, 2, 3, 4, 0, 2, 7, 0, 1, 2, 3, 4, 5, 6, 9, 12>>}

\* an unprotect that leaves the WPR bytes as they were read
unprotect_config_keeps_wpr(p) == <<165, 90>> \o Slice(p, 4, 14)

\* let mut config = resp.payload()[2..14].to_vec(); config[0] = 0xa5;
\* config[1] = 0x5a; config[8..12].copy_from_slice(&[0xff; 4]);
unprotect_config(p) ==
    [i \in 1..12 |-> IF i = 1 THEN 165
                     ELSE IF i = 2 THEN 90
                     ELSE IF i >= 9 THEN 255
                     ELSE Slice(p, 2, 14)[i]]

\* unprotect(force) up to the configuration it will write
UnprotectApi ==
    /\ pc = "ready" /\ cli = "api"
    /\ op' = "unprotect"
    /\ \E force \in BOOLEAN :
        /\ arg' = force
        /\ IF ~force /\ ~code_flash_protected
           THEN /\ pc' = "done"
                /\ UNCHANGED <<err, tx, rx, resp, sent, wire, raw, current>>
           ELSE \E io \in Replies(READ_CONFIG, RegisterPayloads, <<7, 0>>) :
                LET cmd == read_config(CFG_MASK_RDPR_USER_DATA_WPR)
                    r == transfer(cmd, io)
                    p == payload(r.resp)
                IN  /\ RoundTrip(cmd, io, r)
                    /\ IF r.st # "ok" THEN Stop(r) /\ UNCHANGED <<raw, current>>
                       ELSE IF ~is_ok(r.resp)
                            THEN Fail("read_config failed") /\ UNCHANGED <<raw, current>>
                       ELSE IF Len(p) < 14
                            THEN Panic("index out of bounds") /\ UNCHANGED <<raw, current>>
                       ELSE /\ current' = Slice(p, 2, 14)
                            /\ raw' = unprotect_config(p)
                            /\ pc' = "unprotect_write"
                            /\ err' = err
    /\ UNCHANGED <<cli, families, ret, session, key, address, opts, binary>>

\* WRITE_CONFIG(0x07, config)
UnprotectWrite ==
    /\ pc = "unprotect_write"
    /\ \E io \in Replies(WRITE_CONFIG, AckPayloads, <<0, 0>>) :
        LET cmd == write_config(CFG_MASK_RDPR_USER_DATA_WPR, raw)
            r == transfer(cmd, io)
        IN  /\ RoundTrip(cmd, io, r)
            /\ IF r.st # "ok" THEN Stop(r)
               ELSE IF ~is_ok(r.resp) THEN Fail("write_config failed")
               ELSE pc' = "unprotect_reset" /\ err' = err
    /\ UNCHANGED <<cli, scratch, session, locals, opts, binary>>

\* an unprotect that notes the code flash as unprotected from then on
flag_after_unprotect_cleared(flag) == FALSE

\* self.code_flash_protected once unprotect has run: unprotect writes the
\* configuration and resets the chip, it assigns no field of the session
flag_after_unprotect(flag) == flag

\* self.reset()?: ISP_END with reason 1
UnprotectReset ==
    /\ pc = "unprotect_reset"
    /\ \E io \in Replies(ISP_END, AckPayloads, <<0, 0>>) :
        LET cmd == isp_end(1)
            r == transfer(cmd, io)
        IN  /\ RoundTrip(cmd, io, r)
            /\ IF r.st # "ok" THEN Stop(r)
               ELSE IF ~is_ok(r.resp) THEN Fail("isp_end failed")
               ELSE pc' = "done" /\ err' = err
    /\ code_flash_protected' = flag_after_unprotect(code_flash_protected)
    /\ UNCHANGED <<cli, scratch, chip, chip_uid, bootloader_version, identified, locals,
                   opts, binary>>

-----------------------------------------------------------------------------
(* Flashing::reset_config, enable_debug, disable_debug *)

\* raw.pwrite_with(value, offset, scroll::LE): <<>> for an Err (the 4 bytes do not
\* fit at the offset), else the buffer with the value written
pwrite_u32(buf, value, offset) ==
    IF offset + 4 > Len(buf) THEN <<>>
    ELSE [i \in 1..Len(buf) |->
            IF i > offset /\ i <= offset + 4 THEN value[i - offset] ELSE buf[i]]

\* a loop turn that writes the operation's own value only
values_written_own_only(which, reg) ==
    IF which = "reset_config" THEN (IF reg.reset # <<>> THEN <<reg.reset>> ELSE <<>>)
    ELSE IF which = "enable_debug"
    THEN (IF reg.enable_debug # <<>> THEN <<reg.enable_debug>> ELSE <<>>)
    ELSE (IF reg.disable_debug # <<>> THEN <<reg.disable_debug>> ELSE <<>>)

\* the values one turn of `for reg_desc in &self.chip.config_registers` writes, in
\* order: `reset` when it is Some, then the operation's own value when it is Some
values_written(which, reg) ==
    (IF reg.reset # <<>> THEN <<reg.reset>> ELSE <<>>)
    \o (IF which = "enable_debug" /\ reg.enable_debug # <<>>
        THEN <<reg.enable_debug>> ELSE <<>>)
    \o (IF which = "disable_debug" /\ reg.disable_debug # <<>>
        THEN <<reg.disable_debug>> ELSE <<>>)

\* the loop over the registers from register i on: [ok, raw]
RECURSIVE write_registers(_, _, _, _)
write_registers(which, regs, i, buf) ==
    IF i > Len(regs) THEN [ok |-> TRUE, raw |-> buf]
    ELSE LET vs == values_written(which, regs[i])
             fits == vs = <<>> \/ regs[i].offset + 4 <= Len(buf)
             last == IF vs = <<>> THEN buf ELSE pwrite_u32(buf, vs[Len(vs)], regs[i].offset)
         IN  IF ~fits THEN [ok |-> FALSE, raw |-> buf]
             ELSE write_registers(which, regs, i + 1, last)

ConfigOps == {"reset_config", "enable_debug", "disable_debug"}

\* READ_CONFIG(0x07) and the edit of the bytes read
ConfigApi ==
    /\ pc = "ready" /\ cli = "api"
    /\ \E which \in ConfigOps,
          io \in Replies(READ_CONFIG, RegisterPayloads, <<7, 0>>) :
        LET cmd == read_config(CFG_MASK_RDPR_USER_DATA_WPR)
            r == transfer(cmd, io)
            p == payload(r.resp)
            edited == write_registers(which, chip.config_registers, 1, SliceFrom(p, 2))
        IN  /\ RoundTrip(cmd, io, r)
            /\ op' = which
            /\ IF r.st # "ok" THEN Stop(r) /\ UNCHANGED <<raw, current>>
               ELSE IF ~is_ok(r.resp)
                    THEN Fail("read_config failed") /\ UNCHANGED <<raw, current>>
               ELSE IF Len(p) < 2
                    THEN Panic("index out of bounds") /\ UNCHANGED <<raw, current>>
               ELSE /\ current' = SliceFrom(p, 2)
                    /\ raw' = edited.raw
                    /\ IF edited.ok THEN pc' = "config_write" /\ err' = err
                       ELSE Fail("bad offset")
    /\ UNCHANGED <<cli, families, arg, ret, session, key, address, opts, binary>>

\* WRITE_CONFIG(0x07, raw)
ConfigWrite ==
    /\ pc = "config_write"
    /\ \E io \in Replies(WRITE_CONFIG, AckPayloads, <<0, 0>>) :
        LET cmd == write_config(CFG_MASK_RDPR_USER_DATA_WPR, raw)
            r == transfer(cmd, io)
        IN  /\ RoundTrip(cmd, io, r)
            /\ IF r.st # "ok" THEN Stop(r)
               ELSE IF ~is_ok(r.resp) THEN Fail("write_config failed")
               ELSE pc' = "config_read_back" /\ err' = err
    /\ UNCHANGED <<cli, scratch, session, locals, opts, binary>>

\* the read back: READ_CONFIG(0x07)
ConfigReadBack ==
    /\ pc = "config_read_back"
    /\ \E io \in Replies(READ_CONFIG, RegisterPayloads, <<7, 0>>) :
        LET cmd == read_config(CFG_MASK_RDPR_USER_DATA_WPR)
            r == transfer(cmd, io)
        IN  /\ RoundTrip(cmd, io, r)
            /\ IF r.st # "ok" THEN Stop(r)
               ELSE IF ~is_ok(r.resp) THEN Fail("read_config failed")
               ELSE pc' = "done" /\ err' = err
    /\ UNCHANGED <<cli, scratch, session, locals, opts, binary>>

-----------------------------------------------------------------------------
(* Flashing::dump_eeprom and Flashing::erase_data *)

\* const CHUNK: usize = 0x3a of dump_eeprom
READ_CHUNK == 58

\* what the data flash holds at an address
EepromByte(a) == (a * 29 + 254) % 256
EepromData(a, n) == [i \in 1..n |-> EepromByte(a + i - 1)]

\* DATA_READ reply payloads for a read of n bytes at a: the two echo bytes and the
\* n bytes asked for, one byte more, or the two bytes fe 00
DataReadPayloads(a, n) ==
    { <<n, 0>> \o EepromData(a, n),
      <<n, 0>> \o EepromData(a, n + 1),
      <<n, 0, 254, 0>> }

\* u16::min(CHUNK as u16, self.chip.eeprom_size as u16 - address as u16)
chunk_size(eeprom_size, addr) ==
    Min(READ_CHUNK, U16(U16(eeprom_size) - U16(addr)))

\* dump_eeprom up to its loop
DumpEepromApi ==
    /\ pc = "ready" /\ cli = "api"
    /\ op' = "dump_eeprom"
    /\ ret' = <<>>
    /\ address' = 0
    /\ IF chip.eeprom_size = 0
       THEN Fail("Chip does not support EEPROM")
       ELSE pc' = "dump_read" /\ err' = err
    /\ UNCHANGED <<cli, families, arg, current, session, key, raw, tx, rx, resp, sent, wire, opts, binary>>

\* one turn of `while address < self.chip.eeprom_size`, and, when the loop ends
\* with it, the ensure!(ret.len() == eeprom_size) that follows the loop
DataRead ==
    /\ pc = "dump_read"
    /\ address < chip.eeprom_size
    /\ LET n == chunk_size(chip.eeprom_size, address) IN
       \E io \in Replies(DATA_READ, DataReadPayloads(address, n), <<n, 0>>) :
        LET cmd == data_read(address, n)
            r == transfer(cmd, io)
            p == payload(r.resp)
            data == SliceFrom(p, 2)
            more == ~(n < READ_CHUNK) /\ address + n < chip.eeprom_size
        IN  /\ RoundTrip(cmd, io, r)
            /\ IF r.st # "ok" THEN Stop(r) /\ UNCHANGED <<ret, address>>
               ELSE IF ~is_ok(r.resp)
                    THEN Fail("data_read failed") /\ UNCHANGED <<ret, address>>
               ELSE IF Len(p) < 2
                    THEN Panic("index out of bounds") /\ UNCHANGED <<ret, address>>
               ELSE IF Len(data) # n
                    THEN Fail("data_read length mismatch") /\ UNCHANGED <<ret, address>>
               ELSE IF data = <<254, 0>>
                    THEN Fail("EEPROM read failed, required chunk size cannot be satisfied")
                         /\ UNCHANGED <<ret, address>>
               ELSE /\ ret' = ret \o data
                    /\ address' = address + n
                    /\ IF more THEN pc' = pc /\ err' = err
                       ELSE IF Len(ret \o data) = chip.eeprom_size
                            THEN pc' = "done" /\ err' = err
                       ELSE Fail("EEPROM size mismatch")
    /\ UNCHANGED <<cli, families, arg, current, session, key, raw, op, opts, binary>>

\* let sectors = (self.chip.eeprom_size / 1024).max(1) as u16
erase_data_sectors(eeprom_size) ==
    U16(IF eeprom_size \div 1024 < 1 THEN 1 ELSE eeprom_size \div 1024)

\* Flashing::erase_data
EraseData ==
    /\ pc = "ready" /\ cli = "api"
    /\ op' = "erase_data"
    /\ IF chip.eeprom_size = 0
       THEN Fail("chip doesn't support data EEPROM") /\ UNCHANGED <<tx, rx, resp, sent, wire>>
       ELSE \E io \in Replies(DATA_ERASE, AckPayloads, <<0, 0>>) :
            LET cmd == data_erase(erase_data_sectors(chip.eeprom_size))
                r == transfer_with_wait(cmd, io)
            IN  /\ RoundTrip(cmd, io, r)
                /\ IF r.st # "ok" THEN Stop(r)
                   ELSE IF ~is_ok(r.resp) THEN Fail("erase_data failed")
                   ELSE pc' = "done" /\ err' = err
    /\ UNCHANGED <<cli, scratch, session, key, raw, address, opts, binary>>

-----------------------------------------------------------------------------
(* main.rs: the Flash command *)

\* Flashing::dump_info -> dump_config: READ_CONFIG(CFG_MASK_ALL), a pread of each
\* register; then main reads the firmware file and pads it
DumpInfo ==
    /\ pc = "ready" /\ cli = "flash"
    /\ \E io \in Replies(READ_CONFIG, ConfigPayloads, ConfigPayload(58, <<1, 2, 3, 4, 5, 6, 9, 12>>)), file \in FlashFiles :
        LET cmd == read_config(CFG_MASK_ALL)
            r == transfer(cmd, io)
            p == payload(r.resp)
            regs == chip.config_registers
        IN  /\ RoundTrip(cmd, io, r)
            /\ IF r.st # "ok" THEN Stop(r) /\ UNCHANGED <<binary, opts>>
               ELSE IF ~is_ok(r.resp)
                    THEN Fail("read_config failed") /\ UNCHANGED <<binary, opts>>
               ELSE IF Len(p) < 2
                    THEN Panic("index out of bounds") /\ UNCHANGED <<binary, opts>>
               ELSE IF \E i \in 1..Len(regs) : regs[i].offset + 4 > Len(p) - 2
                    THEN Fail("bad offset") /\ UNCHANGED <<binary, opts>>
               ELSE \E no_erase \in Flag :
                    /\ binary' = extend_firmware_to_sector_boundary(file)
                    /\ opts' = [opts EXCEPT !.no_erase = no_erase]
                    /\ pc' = IF no_erase = "true" THEN "flash_isp_key" ELSE "erase_code"
                    /\ err' = err
    /\ op' = "dump_info"
    /\ UNCHANGED <<cli, scratch, session, key, raw, address>>

\* erase_code: `if sectors < min_sectors { sectors = min_sectors; }`
erase_code_sectors(c, n) ==
    IF n < min_erase_sector_number(c) THEN min_erase_sector_number(c) ELSE n

\* Flashing::erase_code(n); `next` is where the caller goes on Ok
erase_code(n, next) ==
    /\ \E io \in Replies(ERASE, AckPayloads, <<0, 0>>) :
        LET cmd == erase(erase_code_sectors(chip, n))
            r == transfer_with_wait(cmd, io)
        IN  /\ RoundTrip(cmd, io, r)
            /\ IF r.st # "ok" THEN Stop(r)
               ELSE IF ~is_ok(r.resp) THEN Fail("erase failed")
               ELSE pc' = next /\ err' = err
    /\ op' = "erase_code"
    /\ arg' = n

\* main.rs: flashing.erase_code(binary.len() / SECTOR_SIZE + 1)
EraseCode ==
    /\ pc = "erase_code"
    /\ erase_code((Len(binary) \div SECTOR_SIZE) + 1, "flash_isp_key")
    /\ UNCHANGED <<cli, families, current, ret, session, key, raw, address, opts, binary>>

\* a library call erase_code(n) on the open session
EraseArgs == {0, 3, 4, 5, 7, 8, 9, 300}
EraseCodeApi ==
    /\ pc = "ready" /\ cli = "api"
    /\ \E n \in EraseArgs : erase_code(n, "done")
    /\ UNCHANGED <<cli, families, current, ret, session, key, raw, address, opts, binary>>

\* Flashing::reset, called as `let _ = flashing.reset()`: its error is dropped
Reset ==
    /\ pc = "reset"
    /\ \E io \in Replies(ISP_END, AckPayloads, <<0, 0>>) :
        LET cmd == isp_end(1)
            r == transfer(cmd, io)
        IN  /\ RoundTrip(cmd, io, r)
            /\ IF r.st = "panic" THEN Panic(r.msg) ELSE pc' = "done" /\ err' = err
    /\ op' = "reset"
    /\ UNCHANGED <<cli, scratch, session, key, raw, address, opts, binary>>

-----------------------------------------------------------------------------
(* The codec on its own: any command encoded by Command::into_raw *)

CodecAddresses == {0, CHUNK, 2048, 16909060}
CodecData == {<<>>, Image(1), Image(CHUNK)}
CodecCommands ==
    {identify(i, t) : i \in {0, 105, 255}, t \in {0, 23}}
    \cup {isp_end(x) : x \in {0, 1}}
    \cup {isp_key([i \in 1..n |-> 0]) : n \in {0, 30, 255, 256}}
    \cup {erase(n) : n \in {0, 8, 300, 70000}}
    \cup {program(a, p, d) : a \in CodecAddresses, p \in Paddings, d \in CodecData}
    \cup {verify(a, p, d) : a \in CodecAddresses, p \in Paddings, d \in CodecData}
    \cup {data_program(a, p, d) : a \in CodecAddresses, p \in Paddings, d \in CodecData}
    \cup {read_config(m) : m \in {CFG_MASK_RDPR_USER_DATA_WPR, CFG_MASK_ALL}}
    \cup {write_config(CFG_MASK_RDPR_USER_DATA_WPR, d) :
            d \in {<<>>, <<165, 90, 63, 192, 0, 255, 0, 255, 255, 255, 255, 255>>}}
    \cup {data_read(a, n) : a \in {0, 58}, n \in {0, 58}}
    \cup {data_erase(n) : n \in {1, 32}}
    \cup {set_baud(b) : b \in {115200, 1000000, 2000000}}

Encode ==
    /\ pc = "codec"
    /\ \E c \in CodecCommands :
        /\ tx' = into_raw(c)
        /\ sent' = <<c>>
    /\ op' = "into_raw"
    /\ UNCHANGED <<cli, scratch, wire, pc, err, session, key, raw, address, rx, resp, opts,
                   binary>>

-----------------------------------------------------------------------------
(* Specifications *)

\* a session opened on a transport, then one library call
Init == cli = "api" /\ pc = "open_identify" /\ opts = NoOpts /\ InitSession

Next ==
    \/ OpenIdentify
    \/ OpenGetChip
    \/ OpenReadConfig
    \/ FlashApi
    \/ FlashChunk
    \/ FlashFinal
    \/ VerifyApi
    \/ VerifyChunk
    \/ WriteEepromApi
    \/ WriteDataChunk
    \/ WriteEepromFinal
    \/ EraseCodeApi
    \/ UnprotectApi
    \/ UnprotectWrite
    \/ UnprotectReset
    \/ ConfigApi
    \/ ConfigWrite
    \/ ConfigReadBack

Spec == Init /\ [][Next]_vars

\* `wchisp flash` with any combination of --no-erase, --no-verify, --no-reset
InitFlashCmd == cli = "flash" /\ pc = "open_identify" /\ opts = NoOpts /\ InitSession

NextFlashCmd ==
    \/ OpenIdentify
    \/ OpenGetChip
    \/ OpenReadConfig
    \/ DumpInfo
    \/ EraseCode
    \/ FlashCmd
    \/ FlashChunk
    \/ FlashFinal
    \/ VerifyCmd
    \/ VerifyChunk
    \/ Reset

SpecFlashCmd == InitFlashCmd /\ [][NextFlashCmd]_vars

\* the codec applied to one command
\* The EEPROM operations on an open session.  The chip record is one of the
\* catalog with its eeprom_size (a u32 of the record) ranging over EepromSizes.
SmallEeprom == 128
EepromSizes ==
    {0, 1, 2, READ_CHUNK, READ_CHUNK + 2, 2 * READ_CHUNK, SmallEeprom, 1024, 1536,
     65536, 65536 + READ_CHUNK + 2, 65536 + SmallEeprom}
EepromChips ==
    {[find_chip(id[1], id[2]).chip EXCEPT !.eeprom_size = e] :
        id \in {<<82, 17>>, <<105, 16>>}, e \in EepromSizes}

InitEeprom ==
    /\ cli = "api" /\ pc = "ready" /\ opts = NoOpts
    /\ err = ""
    /\ chip \in EepromChips
    /\ identified = <<chip.chip_id, chip.device_type>>
    /\ chip_uid = <<1, 2, 3, 4, 5, 6, 9, 12>>
    /\ bootloader_version = <<0, 2, 7, 0>>
    /\ code_flash_protected = FALSE
    /\ key = <<>> /\ raw = <<>> /\ address = 0 /\ op = "open"
    /\ tx = into_raw(read_config(CFG_MASK_ALL))
    /\ rx = Frame(READ_CONFIG, 0, ConfigPayload(165, chip_uid))
    /\ resp = ResponseOk(ConfigPayload(165, chip_uid))
    /\ sent = <<identify(0, 0), identify(0, 0), read_config(CFG_MASK_ALL)>>
    /\ binary = <<>> /\ arg = 0 /\ current = <<>> /\ ret = <<>>
    /\ families = <<>>
    /\ events = transport_calls(IoFrame(rx)) \o transport_calls(IoFrame(rx))
                    \o transport_calls(IoFrame(rx))
    /\ port = NoPort

NextEeprom ==
    \/ DumpEepromApi
    \/ DataRead
    \/ EraseData
    \/ WriteEepromApi
    \/ WriteDataChunk
    \/ WriteEepromFinal

SpecEeprom == InitEeprom /\ [][NextEeprom]_vars

InitCodec == cli = "codec" /\ pc = "codec" /\ opts = NoOpts /\ InitSession

NextCodec == Encode

SpecCodec == InitCodec /\ [][NextCodec]_vars

-----------------------------------------------------------------------------
(* Properties *)

IsProgram(c) == c.type = "Program"
IsVerify(c) == c.type = "Verify"
IsIspKey(c) == c.type = "IspKey"
IsChunkCommand(c) == c.type \in {"Program", "Verify", "DataProgram"}

\* the number of 56-byte pieces of an image of n bytes
Pieces(n) == (n + 55) \div 56

\* piece j (from 1) of image B under key k: 56 bytes from offset 56 (j - 1), or
\* what is left, the byte of image offset p XORed with k[p mod 8]
PieceData(B, k, j) ==
    [i \in 1..Min(56, Len(B) - 56 * (j - 1)) |->
        Xor8(B[56 * (j - 1) + i], k[((56 * (j - 1) + i - 1) % 8) + 1])]

KeyBefore(i) == \E j \in 1..(i - 1) : IsIspKey(sent[j])

\* C1: the PROGRAMs of flash(B) come after ISP_KEY and are, in order, one per
\* 56-byte piece of B at addresses 0, 56, 112, .. carrying B[p] XOR key[p mod 8],
\* then one PROGRAM with empty data at address len(B); a flash that returns Ok has
\* issued ceil(len(B) / 56) + 1 of them
C1_FlashPrograms ==
    op = "flash" =>
        LET progs == SelectSeq(sent, IsProgram)
            n == Pieces(Len(raw))
        IN  /\ Len(progs) <= n + 1
            /\ \A j \in 1..Len(progs) :
                progs[j] = IF j <= n
                           THEN [type |-> "Program", address |-> 56 * (j - 1),
                                 data |-> PieceData(raw, key, j)]
                           ELSE [type |-> "Program", address |-> Len(raw), data |-> <<>>]
            /\ \A i \in 1..Len(sent) : IsProgram(sent[i]) => KeyBefore(i)
            /\ pc = "done" => Len(progs) = n + 1

\* flash of an image of more than two pieces has returned Ok
C1_Witness == op = "flash" /\ pc = "done" /\ Len(raw) > 112

\* the sum mod 256 of the first n bytes of u, n being 4 or 8
UidSum(u, n) ==
    IF n = 4 THEN (u[1] + u[2] + u[3] + u[4]) % 256
    ELSE (u[1] + u[2] + u[3] + u[4] + u[5] + u[6] + u[7] + u[8]) % 256

\* C2: the key of flash, verify and write_eeprom is s seven times and then
\* (s + chip_id) mod 256, s the sum mod 256 of the first uid_size bytes of the UID,
\* uid_size 4 exactly for device type 0x11, chip_id the id the device identified as
C2_XorKey ==
    (op \in {"flash", "verify", "write_eeprom"} /\ key # <<>>) =>
        LET n == IF identified[2] = 17 THEN 4 ELSE 8
            s == UidSum(chip_uid, n)
        IN  /\ uid_size(chip) = n
            /\ chip.chip_id = identified[1]
            /\ key = <<s, s, s, s, s, s, s, (s + identified[1]) % 256>>

\* an operation has derived its key on the 4-byte-UID chip, whose 8 UID bytes sum
\* to something else than its first 4
C2_Witness ==
    /\ op \in {"flash", "verify", "write_eeprom"}
    /\ key # <<>>
    /\ identified[2] = 17
    /\ UidSum(chip_uid, 4) # UidSum(chip_uid, 8)

\* C3 (as claimed): every ISP_KEY carries 30 zero bytes, and an ISP_KEY reply whose
\* payload byte 0 is not the sum mod 256 of the key bytes fails the operation
\* (so that no PROGRAM, VERIFY or DATA_PROGRAM follows)
C3_KeyChecksumChecked ==
    /\ \A i \in 1..Len(sent) :
        IsIspKey(sent[i]) => sent[i].key = <<0, 0, 0, 0, 0, 0, 0, 0, 0, 0, 0, 0, 0, 0, 0,
                                             0, 0, 0, 0, 0, 0, 0, 0, 0, 0, 0, 0, 0, 0, 0>>
    /\ \A i \in 1..Len(sent) :
        (IsChunkCommand(sent[i]) /\ op \in {"flash", "verify", "write_eeprom"}) =>
            KeyBefore(i)
    /\ ( /\ Len(tx) > 0 /\ tx[1] = ISP_KEY
         /\ resp.tag # "None" /\ Len(payload(resp)) > 0
         /\ payload(resp)[1] #
              (key[1] + key[2] + key[3] + key[4] + key[5] + key[6] + key[7] + key[8]) % 256 )
       => pc = "failed"

AllEnabled == opts.no_erase = "false" /\ opts.no_verify = "false" /\ opts.no_reset = "false"

\* C4 (as claimed): in `wchisp flash` with erase, verify and reset enabled, no ERASE
\* precedes the first ISP_KEY, no PROGRAM precedes the ERASE, no VERIFY precedes the
\* final (empty) PROGRAM, and nothing follows ISP_END
C4_FlashOrder ==
    AllEnabled =>
        \A i \in 1..Len(sent) :
            /\ sent[i].type = "Erase" => KeyBefore(i)
            /\ IsProgram(sent[i]) => \E j \in 1..(i - 1) : sent[j].type = "Erase"
            /\ IsVerify(sent[i]) =>
                \E j \in 1..(i - 1) : IsProgram(sent[j]) /\ sent[j].data = <<>>
            /\ sent[i].type = "IspEnd" => i = Len(sent)

\* C5: verify(B) sends ISP_KEY, then a VERIFY per 56-byte piece at the running
\* address with the data XORed as in flash and none of zero length; a VERIFY reply
\* whose payload byte 0 is not 0 (a6 00 02 00 ff 00) fails it on the spot, and it
\* returns Ok only with every piece verified
C5_Verify ==
    op = "verify" =>
        LET vs == SelectSeq(sent, IsVerify)
            n == Pieces(Len(raw))
        IN  /\ Len(vs) <= n
            /\ \A j \in 1..Len(vs) :
                vs[j] = [type |-> "Verify", address |-> 56 * (j - 1),
                         data |-> PieceData(raw, key, j)]
            /\ \A i \in 1..Len(sent) : IsVerify(sent[i]) => KeyBefore(i)
            /\ ( /\ Len(tx) > 0 /\ tx[1] = VERIFY
                 /\ resp.tag # "None" /\ Len(payload(resp)) > 0
                 /\ payload(resp)[1] # 0 )
               => (pc = "failed" /\ err = "Verify failed, mismatch")
            /\ rx = <<166, 0, 2, 0, 255, 0>> => pc = "failed"
            /\ pc = "done" =>
                /\ Len(vs) = n
                /\ n > 0 => (resp.tag # "None" /\ payload(resp)[1] = 0)

\* the second VERIFY of a verify is answered a6 00 02 00 ff 00
C5_Witness ==
    op = "verify" /\ rx = <<166, 0, 2, 0, 255, 0>> /\ Len(SelectSeq(sent, IsVerify)) = 2

\* C6 (as claimed): a received frame whose status byte is not 0x00 is decoded as
\* Response::Err with that code, so that the operation fails
C6_StatusDecoded ==
    (resp.tag # "None" /\ rx[2] # 0) =>
        (resp.tag = "Err" /\ resp.code = rx[2] /\ ~is_ok(resp) /\ pc = "failed")

\* C7: a response is decoded only from a frame whose first byte is the command
\* byte of the request just sent; a frame with another first byte fails the transfer
C7_CommandEcho ==
    /\ resp.tag # "None" => (Len(rx) > 0 /\ rx[1] = tx[1])
    /\ (Len(rx) > 0 /\ rx[1] # tx[1]) =>
            (resp = NoResp /\ pc = "failed" /\ err = "response command type mismatch")

\* a PROGRAM was answered with a frame that starts with another byte
C7_Witness == Len(rx) > 0 /\ tx[1] = PROGRAM /\ rx[1] # PROGRAM /\ pc = "failed"

\* C8 (as claimed): an encoded command is its command byte, a little-endian 16-bit
\* length L and exactly L payload bytes
CommandByte(c) ==
    CASE c.type = "Identify" -> 161 [] c.type = "IspEnd" -> 162 [] c.type = "IspKey" -> 163
      [] c.type = "Erase" -> 164 [] c.type = "Program" -> 165 [] c.type = "Verify" -> 166
      [] c.type = "ReadConfig" -> 167 [] c.type = "WriteConfig" -> 168
      [] c.type = "DataErase" -> 169 [] c.type = "DataProgram" -> 170
      [] c.type = "DataRead" -> 171 [] c.type = "SetBaud" -> 197

C8_FrameLayout ==
    sent # <<>> =>
        /\ Len(tx) >= 3
        /\ tx[1] = CommandByte(sent[1])
        /\ Len(tx) = 3 + tx[2] + 256 * tx[3]

ProtectTypes == {20, 21, 23, 24, 25, 32}

\* C9: after a successful open, code_flash_protected is true exactly when the
\* device type the chip identified with supports code flash protection and byte 2
\* of the READ_CONFIG(0x1f) reply payload is not 0xa5
C9_ProtectedFlag ==
    pc = "ready" =>
        code_flash_protected = (identified[2] \in ProtectTypes /\ payload(resp)[3] # 165)

\* a session opened on a chip without protection support whose RDPR byte is 0x3a
C9_Witness ==
    pc = "ready" /\ identified[2] \notin ProtectTypes /\ payload(resp)[3] = 58
        /\ ~code_flash_protected

\* the UID words of a READ_CONFIG(0x1f) reply payload (UID at payload offset 18)
UidWord(p, k) == p[19 + 2 * k] + 256 * p[20 + 2 * k]
UidAddsUp(p) == (UidWord(p, 0) + UidWord(p, 1) + UidWord(p, 2)) % 65536 = UidWord(p, 3)

\* C10: once READ_CONFIG(0x1f) is answered, the open succeeds exactly when the chip
\* has uid_size 4 or the UID words at offsets 0, 2, 4 add up mod 2^16 to the word
\* at offset 6, and otherwise fails on the UID checksum
C10_UidCheck ==
    (op = "open" /\ Len(sent) = 3 /\ tx[1] = READ_CONFIG /\ resp.tag # "None") =>
        LET p == payload(resp) IN
        /\ pc = "ready" <=> (identified[2] = 17 \/ UidAddsUp(p))
        /\ pc # "ready" => (pc = "failed" /\ err = "Chip UID checksum failed!")

\* a session opened on an 8-byte-UID chip whose UID words add up only by wrapping
C10_Witness ==
    /\ pc = "ready" /\ identified[2] # 17
    /\ UidWord(payload(resp), 0) + UidWord(payload(resp), 1) + UidWord(payload(resp), 2)
         > 65535

\* C11 (as claimed): opening a session sends IDENTIFY(0, 0) and then
\* READ_CONFIG(0x1f), in that order and nothing else, and the chip is the one the
\* reply to that IDENTIFY names
C11_OpenCommands ==
    op = "open" =>
        /\ Len(sent) <= 2
        /\ Len(sent) >= 1 => sent[1] = [type |-> "Identify", device_id |-> 0, device_type |-> 0]
        /\ Len(sent) >= 2 => sent[2] = [type |-> "ReadConfig", bit_mask |-> 31]
        /\ pc = "ready" => Len(sent) = 2

IsErase(c) == c.type = "Erase"

\* C12: erase_code(n) sends one ERASE, whose sector count is n raised to the
\* minimum of the chip: 4 when the device type is 0x10 and 8 otherwise
C12_EraseMinimum ==
    (op = "erase_code" /\ cli = "api") =>
        LET es == SelectSeq(sent, IsErase)
            m == IF identified[2] = 16 THEN 4 ELSE 8
        IN  /\ Len(es) <= 1
            /\ \A i \in 1..Len(es) : es[i].sectors = IF arg < m THEN m ELSE arg
            /\ \A i \in 1..Len(sent) : IsErase(sent[i]) => i = Len(sent)
            /\ pc = "done" => Len(es) = 1

\* erase_code(0) has returned Ok on a chip of device type 0x10, asking for 4 sectors
C12_Witness ==
    /\ op = "erase_code" /\ cli = "api" /\ pc = "done"
    /\ arg = 0 /\ identified[2] = 16
    /\ sent[Len(sent)] = [type |-> "Erase", sectors |-> 4]

\* the commands an operation has sent on the open session (the open sent 3)
SinceOpen == SubSeq(sent, 4, Len(sent))

\* C13: unprotect(force) sends nothing when force is false and the session is not
\* protected; otherwise READ_CONFIG(0x07), then WRITE_CONFIG(0x07) with a5 5a, the
\* bytes 2..8 as read and ff ff ff ff, then ISP_END with reason 1, in that order
C13_Unprotect ==
    op = "unprotect" =>
        IF ~arg /\ ~code_flash_protected
        THEN SinceOpen = <<>> /\ pc = "done"
        ELSE /\ Len(SinceOpen) <= 3
             /\ Len(SinceOpen) >= 1 => SinceOpen[1] = [type |-> "ReadConfig", bit_mask |-> 7]
             /\ Len(SinceOpen) >= 2 =>
                    /\ Len(current) = 12
                    /\ SinceOpen[2] =
                          [type |-> "WriteConfig", bit_mask |-> 7,
                           data |-> <<165, 90>> \o SubSeq(current, 3, 8)
                                       \o <<255, 255, 255, 255>>]
             /\ Len(SinceOpen) >= 3 => SinceOpen[3] = [type |-> "IspEnd", reason |-> 1]
             /\ pc = "unprotect_write" =>
                    (tx[1] = READ_CONFIG /\ current = SubSeq(rx, 7, 18))
             /\ pc = "done" => Len(SinceOpen) = 3

\* a forced unprotect of an unprotected session has run to its end, with WPR bytes
\* read that were not ff
C13_Witness ==
    /\ op = "unprotect" /\ pc = "done" /\ arg /\ ~code_flash_protected
    /\ Len(SinceOpen) = 3 /\ SubSeq(current, 9, 12) = <<1, 2, 3, 4>>

\* C14 (as claimed): unprotect on a chip whose device type does not support code
\* flash protection fails, and sends no WRITE_CONFIG
C14_UnprotectUnsupported ==
    (op = "unprotect" /\ identified[2] \notin {20, 21, 23, 24, 25, 32}) =>
        /\ pc = "failed"
        /\ \A i \in 1..Len(sent) : sent[i].type # "WriteConfig"

\* C15 (as claimed): dump_eeprom, erase_data and write_eeprom on a chip with
\* eeprom_size 0 fail without sending a command
C15_NoEeprom ==
    (op \in {"dump_eeprom", "erase_data", "write_eeprom"} /\ chip.eeprom_size = 0) =>
        (pc = "failed" /\ SinceOpen = <<>>)

IsDataRead(c) == c.type = "DataRead"

\* C16 (as claimed): dump_eeprom on a chip with eeprom_size E > 0 reads at 0, 0x3a,
\* 2 * 0x3a, .. with length min(0x3a, E - address), at most ceil(E / 0x3a) times;
\* answered each time with the bytes asked for it does not fail on the size, and
\* it returns, after ceil(E / 0x3a) reads, the E bytes read in order
C16_DumpEeprom ==
    (op = "dump_eeprom" /\ chip.eeprom_size > 0) =>
        LET E == chip.eeprom_size
            rs == SelectSeq(sent, IsDataRead)
        IN  /\ Len(rs) <= (E + 57) \div 58
            /\ \A i \in 1..Len(rs) :
                /\ rs[i].address = 58 * (i - 1)
                /\ rs[i].len = Min(58, E - 58 * (i - 1))
            /\ pc = "failed" => err # "EEPROM size mismatch"
            /\ pc = "done" =>
                /\ Len(rs) = (E + 57) \div 58
                /\ ret = [i \in 1..E |-> EepromByte(i - 1)]

\* C17 (as claimed): a DATA_READ reply payload of [echo0, echo1, 0xfe, 0x00] fails
\* dump_eeprom with the request-cannot-be-satisfied error, whatever length was asked
C17_ReadSentinel ==
    ( /\ op = "dump_eeprom" /\ Len(tx) > 0 /\ tx[1] = DATA_READ
      /\ resp.tag # "None"
      /\ Len(payload(resp)) = 4 /\ payload(resp)[3] = 254 /\ payload(resp)[4] = 0 )
    => ( /\ pc = "failed"
         /\ err = "EEPROM read failed, required chunk size cannot be satisfied" )

\* C18: write_eeprom(D) sends ISP_KEY, then a DATA_PROGRAM per 56-byte piece of D at
\* addresses 0, 56, 112, .. with the data XORed by key[i mod 8], then one PROGRAM
\* (command 0xa5) with empty data at address len(D), and nothing else
C18_WriteEeprom ==
    op = "write_eeprom" =>
        LET n == Pieces(Len(raw)) IN
        /\ Len(SinceOpen) <= n + 2
        /\ \A j \in 1..Len(SinceOpen) :
            SinceOpen[j] =
                IF j = 1 THEN [type |-> "IspKey", key |-> [i \in 1..30 |-> 0]]
                ELSE IF j <= n + 1
                THEN [type |-> "DataProgram", address |-> 56 * (j - 2),
                      data |-> PieceData(raw, key, j - 1)]
                ELSE [type |-> "Program", address |-> Len(raw), data |-> <<>>]
        /\ Len(SinceOpen) = n + 2 => tx[1] = 165
        /\ pc = "done" => Len(SinceOpen) = n + 2

\* write_eeprom of more than two pieces has returned Ok
C18_Witness == op = "write_eeprom" /\ pc = "done" /\ Len(raw) > 112

\* the value a register holds for an operation (<<>> when it has none)
OwnValue(which, reg) ==
    CASE which = "reset_config" -> reg.reset
      [] which = "enable_debug" -> reg.enable_debug
      [] which = "disable_debug" -> reg.disable_debug

\* the value a register is given by an operation.  As claimed: its own value for
\* the operation.  Amended: that, or its reset value when it has no own value.
\* <<>> when the register is given nothing
GivenValue(claimed, which, reg) ==
    IF OwnValue(which, reg) # <<>> \/ claimed THEN OwnValue(which, reg) ELSE reg.reset

\* byte i (from 1) of the bytes written: the byte of the last register that covers
\* i and is given a value, else the byte as read
ByteWritten(claimed, i) ==
    LET regs == chip.config_registers
        over == {k \in 1..Len(regs) :
                    /\ GivenValue(claimed, op, regs[k]) # <<>>
                    /\ i > regs[k].offset /\ i <= regs[k].offset + 4}
    IN  IF over = {} THEN current[i]
        ELSE LET k == CHOOSE x \in over : \A y \in over : y <= x
             IN  GivenValue(claimed, op, regs[k])[i - regs[k].offset]

\* the commands of a config operation
ConfigSequence(claimed) ==
    /\ Len(SinceOpen) <= 3
    /\ Len(SinceOpen) >= 1 => SinceOpen[1] = [type |-> "ReadConfig", bit_mask |-> 7]
    /\ Len(SinceOpen) >= 2 =>
            SinceOpen[2] = [type |-> "WriteConfig", bit_mask |-> 7,
                            data |-> [i \in 1..Len(current) |-> ByteWritten(claimed, i)]]
    /\ Len(SinceOpen) >= 3 => SinceOpen[3] = [type |-> "ReadConfig", bit_mask |-> 7]
    /\ pc = "config_write" => (tx[1] = READ_CONFIG /\ current = SubSeq(rx, 7, Len(rx)))
    /\ pc = "done" => Len(SinceOpen) = 3

\* C19 (as claimed): reset_config, enable_debug and disable_debug send
\* READ_CONFIG(0x07), WRITE_CONFIG(0x07), READ_CONFIG(0x07); the bytes written are
\* the bytes read except that a register with the operation's own value holds that
\* value at its offset; a register without it keeps the bytes read
C19_ConfigAsClaimed == op \in ConfigOps => ConfigSequence(TRUE)

\* C19 (amended): as above, except that enable_debug and disable_debug give a
\* register without the operation's own value its reset value when it has one;
\* only a register with neither keeps the bytes read
C19_ConfigWritten == op \in ConfigOps => ConfigSequence(FALSE)

\* enable_debug has run to its end on a chip whose DATA register has a reset value
\* and no enable_debug value, and was read with other bytes
C19_Witness ==
    /\ op = "enable_debug" /\ pc = "done"
    /\ Len(chip.config_registers) >= 2
    /\ chip.config_registers[2].enable_debug = <<>>
    /\ chip.config_registers[2].reset # <<>>
    /\ SubSeq(current, 5, 8) = <<33, 44, 55, 66>>
    /\ SubSeq(SinceOpen[2].data, 5, 8) = chip.config_registers[2].reset


-----------------------------------------------------------------------------
(* ChipDB::find_chip on its own: every chip id of a u8, a range of device   *)
(* types around those of the catalog                                        *)

QueriedIds == 0..255
QueriedTypes == 0..47 \cup {66, 255}

InitFindChip ==
    /\ cli = "catalog" /\ pc = "find_chip" /\ opts = NoOpts
    /\ err = "" /\ chip = NoChip /\ chip_uid = <<>>
    /\ bootloader_version = <<0, 0, 0, 0>> /\ code_flash_protected = FALSE
    /\ identified \in {<<id, dt>> : id \in QueriedIds, dt \in QueriedTypes}
    /\ key = <<>> /\ raw = <<>> /\ address = 0 /\ op = "open"
    /\ tx = <<>> /\ rx = <<>> /\ resp = NoResp /\ sent = <<>>
    /\ binary = <<>> /\ arg = 0 /\ current = <<>> /\ ret = <<>>
    /\ families = <<>>
    /\ events = <<>>
    /\ port = NoPort

\* let chip = chip_db.find_chip(chip_id, device_type)?
FindChip ==
    /\ cli = "catalog" /\ pc = "find_chip"
    /\ LET found == find_chip(identified[1], identified[2]) IN
       /\ chip' = found.chip
       /\ op' = "find_chip"
       /\ IF found.ok THEN pc' = "done" /\ err' = "" ELSE Fail(found.msg)
    /\ UNCHANGED <<cli, scratch, chip_uid, bootloader_version, code_flash_protected,
                   identified, key, raw, address, tx, rx, resp, sent, wire, opts, binary>>

NextFindChip == FindChip

SpecFindChip == InitFindChip /\ [][NextFindChip]_vars

-----------------------------------------------------------------------------
\* a variant answers to an id by its primary id or by one of its alternate ids
AnswersTo(c, id) == c.chip_id = id \/ \E k \in 1..Len(c.alt_chip_ids) : c.alt_chip_ids[k] = id

FamiliesOf(dt) == {i \in 1..Len(Families) : Families[i].device_type = dt}
EarliestOf(S) == CHOOSE i \in S : \A j \in S : i <= j
VariantsFor(f, id) == {i \in 1..Len(f.variants) : AnswersTo(f.variants[i], id)}
FlagOf(own, of_family) == IF own = "None" THEN of_family ELSE own

\* the chip C20 describes for a query that the family f and its variant v answer
ChipOf(f, v, id) ==
    [name |-> v.name, chip_id |-> id, alt_chip_ids |-> v.alt_chip_ids,
     mcu_type |-> f.mcu_type, device_type |-> f.device_type,
     flash_size |-> v.flash_size, eeprom_size |-> v.eeprom_size,
     eeprom_start_addr |-> v.eeprom_start_addr,
     support_net |-> FlagOf(v.support_net, f.support_net),
     support_usb |-> FlagOf(v.support_usb, f.support_usb),
     support_serial |-> FlagOf(v.support_serial, f.support_serial),
     config_registers |->
         IF Len(v.config_registers) = 0 THEN f.config_registers ELSE v.config_registers]

\* C20: find_chip(chip_id, device_type) fails when no family has the device
\* type or no variant of the first such family answers to chip_id by primary
\* or alternate id; otherwise it returns the first such variant in catalog
\* order with chip_id the queried id, mcu_type and device_type of the family,
\* unset USB/serial/network flags of the family, and the family's config
\* registers exactly when the variant's own list is empty.
C20_FindChip ==
    op = "find_chip" =>
        LET id == identified[1]
            dt == identified[2]
        IN  IF FamiliesOf(dt) = {} THEN pc = "failed"
            ELSE LET f == Families[EarliestOf(FamiliesOf(dt))] IN
                 IF VariantsFor(f, id) = {} THEN pc = "failed"
                 ELSE /\ pc = "done"
                      /\ chip = ChipOf(f, f.variants[EarliestOf(VariantsFor(f, id))], id)

\* id 0x82 of device type 0x19 is an alternate id of both variants: the first
\* one is returned under the queried id, with its own flags and registers
C20_Witness ==
    /\ op = "find_chip" /\ pc = "done"
    /\ identified = <<130, 25>>
    /\ chip.name = "CH32V208" /\ chip.chip_id = 130
    /\ chip.support_net = "true" /\ chip.support_usb = "true"
    /\ chip.config_registers = RegistersV208

-----------------------------------------------------------------------------
(* ChipDB::load on its own: the device records are its input.  One family   *)
(* record is varied: the ids of its second variant, the offset and the bit  *)
(* range of a register of the family and of a register of the variant.      *)

BitRanges ==
    {<<31, 0>>, <<7, 0>>, <<3, 3>>, <<0, 7>>, <<32, 0>>, <<255, 8>>, <<7>>, <<7, 4, 0>>, <<>>}

RecordRegister(offset, bit_range) ==
    [Register(offset, "R", <<255, 0, 255, 0>>, <<>>, <<>>) EXCEPT
        !.fields = <<RegisterField(<<15, 8>>, "HI"), RegisterField(bit_range, "F")>>]

FamilyRecord(chip_id, alts, foffset, frange, vregisters) ==
    [name |-> "CH32V30x Series", mcu_type |-> 7, device_type |-> 23,
     support_usb |-> "true", support_serial |-> "true", support_net |-> "false",
     variants |-> << Variant("CH32V307", 112, <<113>>, 262144, 0),
                     [Variant("CH32V305", chip_id, alts, 131072, 0) EXCEPT
                         !.config_registers = vregisters] >>,
     config_registers |-> <<Register(0, "RDPR_USER", <<165, 90, 255, 0>>, <<>>, <<>>),
                            RecordRegister(foffset, frange)>>]

\* mcu_type and device_type as a record may give them
RecordMcuTypes == {7, 8, 240}
RecordDeviceTypes == {23, 24, 0}

DeviceRecords ==
    {<<Families[1], FamilyRecord(id, alts, foffset, frange, vregisters)>> :
        id \in {105, 112},
        alts \in {<<>>, <<113>>, AllIds},
        foffset \in {4, 6},
        frange \in BitRanges,
        vregisters \in {<<>>} \cup {<<RecordRegister(o, b)>> : o \in {8, 9}, b \in BitRanges}}
    \cup
    {<<Families[1], [FamilyRecord(id, <<>>, 4, <<7, 0>>, <<>>) EXCEPT
                        !.mcu_type = m, !.device_type = d,
                        !.variants[1].alt_chip_ids = alts1]>> :
        id \in {105, 113}, m \in RecordMcuTypes, d \in RecordDeviceTypes,
        alts1 \in {<<113>>, AllIds}}

InitLoad ==
    /\ cli = "catalog" /\ pc = "load" /\ opts = NoOpts
    /\ err = "" /\ chip = NoChip /\ chip_uid = <<>>
    /\ bootloader_version = <<0, 0, 0, 0>> /\ code_flash_protected = FALSE
    /\ identified = <<>>
    /\ key = <<>> /\ raw = <<>> /\ address = 0 /\ op = "open"
    /\ tx = <<>> /\ rx = <<>> /\ resp = NoResp /\ sent = <<>>
    /\ binary = <<>> /\ current = <<>> /\ ret = <<>>
    /\ families = <<>> /\ events = <<>> /\ port = NoPort
    /\ arg \in DeviceRecords

\* let chip_db = ChipDB::load()?
Load ==
    /\ cli = "catalog" /\ pc = "load"
    /\ LET loaded == load(arg) IN
       /\ families' = loaded.families
       /\ op' = "load"
       /\ IF loaded.ok THEN pc' = "done" /\ err' = "" ELSE Fail(loaded.msg)
    /\ UNCHANGED <<cli, arg, current, ret, wire, session, key, raw, address,
                   tx, rx, resp, sent, opts, binary>>

LoadedIds == {105, 112, 113, 114}
LoadedTypes == {16, 23, 24, 0, 39}

\* get_chip: chip_db.find_chip(chip_id, device_type)? on the catalog just loaded
FindLoaded ==
    /\ cli = "catalog" /\ pc = "done" /\ op = "load"
    /\ \E id \in LoadedIds, dt \in LoadedTypes :
        LET found == find_chip_in(families, id, dt) IN
        /\ identified' = <<id, dt>>
        /\ chip' = found.chip
        /\ op' = "find_chip"
        /\ IF found.ok THEN pc' = "done" /\ err' = "" ELSE Fail(found.msg)
    /\ UNCHANGED <<cli, scratch, chip_uid, bootloader_version, code_flash_protected,
                   key, raw, address, tx, rx, resp, sent, wire, opts, binary>>

NextLoad == Load \/ FindLoaded

SpecLoad == InitLoad /\ [][NextLoad]_vars

-----------------------------------------------------------------------------
\* the ids a variant claims: its primary id and its expanded alternate ids
IdsOf(c) == {c.chip_id} \cup {c.alt_chip_ids[k] : k \in 1..Len(c.alt_chip_ids)}

UniqueIds(family) ==
    \A i, j \in 1..Len(family.variants) :
        i # j => IdsOf(family.variants[i]) \cap IdsOf(family.variants[j]) = {}

\* C21 (as claimed): a load that succeeds leaves no family in which two variants
\* claim the same chip id, alternate ids and the "all" marker expanded; a catalog
\* with such a family is rejected
C21_UniqueIds ==
    op = "load" =>
        /\ pc = "done" => \A i \in 1..Len(families) : UniqueIds(families[i])
        /\ (\E i \in 1..Len(arg) : ~UniqueIds(arg[i])) => pc = "failed"

RegistersOf(family) ==
    {family.config_registers[k] : k \in 1..Len(family.config_registers)}
    \cup UNION {{family.variants[v].config_registers[k] :
                    k \in 1..Len(family.variants[v].config_registers)} :
                v \in 1..Len(family.variants)}

AlignedOffset(reg) == reg.offset % 4 = 0
TwoOrderedBounds(reg) ==
    \A k \in 1..Len(reg.fields) :
        /\ Len(reg.fields[k].bit_range) = 2
        /\ reg.fields[k].bit_range[1] >= reg.fields[k].bit_range[2]
BoundsWithin31(reg) ==
    \A k \in 1..Len(reg.fields) :
        \A b \in 1..Len(reg.fields[k].bit_range) : reg.fields[k].bit_range[b] \in 0..31

WellFormed(records, with_bounds) ==
    \A i \in 1..Len(records) : \A reg \in RegistersOf(records[i]) :
        /\ AlignedOffset(reg)
        /\ TwoOrderedBounds(reg)
        /\ with_bounds => BoundsWithin31(reg)

\* C22 (as claimed): a load succeeds exactly on a catalog all of whose registers,
\* of families and of variants, have an offset that is a multiple of 4 and bit
\* fields of exactly two bounds, high >= low, both within 0..=31
C22_RegistersChecked ==
    op = "load" =>
        /\ pc = "done" => WellFormed(families, TRUE)
        /\ ~WellFormed(arg, TRUE) => pc = "failed"

\* what the loader does check: everything of C22 but the bounds being within 0..=31
LoadChecksAllButBounds ==
    op = "load" => (pc = "done" <=> WellFormed(arg, FALSE))

-----------------------------------------------------------------------------
(* transport/serial.rs: SerialTransport over a port.  port.incoming is what  *)
(* the device has put on the line for the read_exact calls of one recv_raw,  *)
(* port.written what the last send_raw wrote.                                *)

\* From<Baudrate> for u32
Baudrates == {115200, 1000000, 2000000}

\* iter().fold(0u8, |acc, &val| acc.wrapping_add(val)): the wrapping sum of the
\* bytes, added up by halves (wrapping addition is associative)
RECURSIVE wrapping_sum(_)
wrapping_sum(s) ==
    IF Len(s) = 0 THEN 0
    ELSE IF Len(s) = 1 THEN s[1]
    ELSE LET half == Len(s) \div 2
         IN  U8(wrapping_sum(SubSeq(s, 1, half)) + wrapping_sum(SubSeq(s, half + 1, Len(s))))

\* SerialTransport::send_raw: prefix, request, wrapping sum of the request
serial_send_raw(request) == <<87, 171>> \o request \o <<wrapping_sum(request)>>

IoError(msg) == [ok |-> FALSE, msg |-> msg, frame |-> <<>>]

\* SerialTransport::recv_raw; read_exact fails when the line runs out of bytes
serial_recv_raw(line) ==
    IF Len(line) < 2 THEN IoError("failed to fill whole buffer")
    ELSE IF SubSeq(line, 1, 2) # <<85, 170>>
    THEN IoError("Response has invalid serial header")
    ELSE IF Len(line) < 6 THEN IoError("failed to fill whole buffer")
    ELSE
    LET payload_head_buf == SubSeq(line, 3, 6)
        payload_data_len == ReadLE16(payload_head_buf, 2)
    IN  IF ~(payload_data_len > 0) THEN IoError("Response data length is zero")
        ELSE IF Len(line) < 6 + payload_data_len + 1
        THEN IoError("failed to fill whole buffer")
        ELSE
        LET resp_vec == SubSeq(line, 3, 6 + payload_data_len)
            cksum_buf == line[6 + payload_data_len + 1]
        IN  IF wrapping_sum(resp_vec) # cksum_buf
            THEN IoError("Response has incorrect checksum")
            ELSE [ok |-> TRUE, msg |-> "", frame |-> resp_vec]

\* a custom-baud rejection that is never recognised
custom_baud_rejected_never(p) == FALSE

\* if let Some(0xfe) = resp.payload().first()
custom_baud_rejected(p) == Len(p) > 0 /\ p[1] = 254

\* what the device can put on the line: frames for two command bytes, with a
\* payload of 0, 1, 2 or 256 bytes, under a right or wrong preamble and
\* checksum, cut short, or followed by a further byte
LongPayload == [i \in 1..256 |-> (i * 7) % 256]
SerialPayloads == {<<>>, <<0>>, <<0, 0>>, <<254, 0>>, <<254>>, <<1, 254>>, LongPayload}
SerialFrames ==
    {Frame(c, st, p) : c \in {SET_BAUD, IDENTIFY}, st \in {0, StatusOther},
                       p \in SerialPayloads}
OnLine(f, preamble, off) == preamble \o f \o <<U8(wrapping_sum(f) + off)>>
Lines ==
    {OnLine(f, pre, off) :
        f \in SerialFrames, pre \in {<<85, 170>>, <<87, 171>>, <<85, 171>>}, off \in {0, 1}}
    \cup {SubSeq(OnLine(f, <<85, 170>>, 0), 1, k) : f \in SerialFrames, k \in {0, 1, 5}}
    \cup {SubSeq(OnLine(f, <<85, 170>>, 0), 1, Len(f) + 2) : f \in SerialFrames}
    \cup {OnLine(f, <<85, 170>>, 0) \o <<85>> : f \in SerialFrames}

\* SerialTransport::set_baudrate(b); the program goes to on_ok when it returns
\* Ok and to on_err when it returns an error
set_baudrate(b, on_ok, on_err) ==
    /\ op' = "set_baudrate"
    /\ arg' = b
    /\ IF b = port.baud_rate
       THEN pc' = on_ok /\ err' = "" /\ UNCHANGED <<tx, rx, resp, sent, wire>>
       ELSE \E send_ok \in BOOLEAN, line \in Lines, set_ok \in BOOLEAN :
            LET cmd == set_baud(b)
                recv == serial_recv_raw(line)
                io == IF ~send_ok THEN IoSendErr
                      ELSE IF ~recv.ok THEN IoRecvErr
                      ELSE IoFrame(recv.frame)
                r == transfer(cmd, io)
                rejected == custom_baud_rejected(payload(r.resp))
                switched == r.st = "ok" /\ is_ok(r.resp) /\ ~rejected /\ set_ok
            IN  /\ (~send_ok => line = <<>>)
                /\ (set_ok = FALSE => r.st = "ok" /\ is_ok(r.resp) /\ ~rejected)
                /\ tx' = into_raw(cmd)
                /\ rx' = IF io.send_ok /\ io.recv_ok THEN io.frame ELSE <<>>
                /\ resp' = r.resp
                /\ sent' = IF io.send_ok THEN Append(sent, Logged(cmd)) ELSE sent
                /\ events' = events \o transport_calls(io)
                /\ port' = [baud_rate |-> IF switched THEN b ELSE port.baud_rate,
                            incoming |-> line,
                            written |-> IF send_ok THEN serial_send_raw(into_raw(cmd))
                                        ELSE <<>>]
                /\ IF r.st # "ok"
                   THEN pc' = on_err
                        /\ err' = IF send_ok /\ ~recv.ok THEN recv.msg ELSE r.msg
                   ELSE IF ~is_ok(r.resp) THEN pc' = on_err /\ err' = "set baudrate failed"
                   ELSE IF rejected THEN pc' = on_ok /\ err' = ""
                   ELSE IF ~set_ok THEN pc' = on_err /\ err' = "set_baud_rate failed"
                   ELSE pc' = on_ok /\ err' = ""

\* SerialTransport::open(port, baudrate): the port is opened at the default
\* rate, then transport.set_baudrate(baudrate)?
SerialOpen ==
    /\ cli = "serial" /\ pc = "serial_open"
    /\ \E b \in Baudrates : set_baudrate(b, "opened", "failed")
    /\ UNCHANGED <<cli, current, ret, families, session, key, raw, address, opts, binary>>

\* Drop for SerialTransport: let _ = self.set_baudrate(Baudrate::Baud115200)
SerialDrop ==
    /\ cli = "serial" /\ pc \in {"opened", "failed"}
    /\ set_baudrate(115200, "dropped", "dropped")
    /\ UNCHANGED <<cli, current, ret, families, session, key, raw, address, opts, binary>>

InitSerial ==
    /\ cli = "serial" /\ pc = "serial_open" /\ opts = NoOpts
    /\ err = "" /\ chip = NoChip /\ chip_uid = <<>>
    /\ bootloader_version = <<0, 0, 0, 0>> /\ code_flash_protected = FALSE
    /\ identified = <<>>
    /\ key = <<>> /\ raw = <<>> /\ address = 0 /\ op = "open"
    /\ tx = <<>> /\ rx = <<>> /\ resp = NoResp /\ sent = <<>>
    /\ binary = <<>> /\ arg = 0 /\ current = <<>> /\ ret = <<>>
    /\ families = <<>> /\ events = <<>>
    /\ port = [baud_rate |-> 115200, incoming |-> <<>>, written |-> <<>>]

NextSerial ==
    \/ SerialOpen
    \/ SerialDrop

SpecSerial == InitSerial /\ [][NextSerial]_vars

-----------------------------------------------------------------------------
\* the sum mod 256 of the bytes s[from..to]
RECURSIVE SumMod256(_, _, _)
SumMod256(s, from, to) ==
    IF from > to THEN 0
    ELSE IF from = to THEN s[from] % 256
    ELSE LET mid == (from + to) \div 2
         IN  (SumMod256(s, from, mid) + SumMod256(s, mid + 1, to)) % 256

\* the line starts with a whole frame: 0x55 0xaa, command, status, length,
\* as many payload bytes as the length declares (at least min_len), and the sum
\* of the bytes between the preamble and the last byte as last byte
StartsWithFrame(line, min_len) ==
    /\ Len(line) >= 7
    /\ line[1] = 85 /\ line[2] = 170
    /\ LET n == line[5] + 256 * line[6] IN
       /\ n >= min_len
       /\ Len(line) >= 7 + n
       /\ line[7 + n] = SumMod256(line, 3, 6 + n)

RecvRawCalled == events # <<>> /\ events[Len(events)].call = "recv_raw"

\* C23 (as claimed): recv_raw returns command, status, length and payload of the
\* incoming frame exactly when the frame starts with 0x55 0xaa and ends with the
\* sum mod 256 of those bytes, whatever payload length it declares, 0 included;
\* it fails on every other line
C23_RecvRaw ==
    RecvRawCalled =>
        /\ events[Len(events)].ok <=> StartsWithFrame(port.incoming, 0)
        /\ events[Len(events)].ok =>
               rx = SubSeq(port.incoming, 3, 6 + port.incoming[5] + 256 * port.incoming[6])

\* what recv_raw does: the same, for frames that declare at least one payload byte
RecvRawNonEmpty ==
    RecvRawCalled =>
        /\ events[Len(events)].ok <=> StartsWithFrame(port.incoming, 1)
        /\ events[Len(events)].ok =>
               rx = SubSeq(port.incoming, 3, 6 + port.incoming[5] + 256 * port.incoming[6])

\* the reply to the SET_BAUD this step sent was received and decoded, and its
\* payload starts with 0xfe
RejectedNow ==
    /\ events' # events
    /\ resp'.tag = "Ok"
    /\ Len(resp'.payload) > 0 /\ resp'.payload[1] = 254

\* what C24 says of a set_baudrate(b) call made with the port at rate `cur`,
\* the port being left at rate `kept` when the reply starts with 0xfe
BaudStep(kept) ==
    op' = "set_baudrate" =>
        /\ arg' = port.baud_rate =>
               /\ events' = events /\ sent' = sent
               /\ port'.baud_rate = port.baud_rate
        /\ arg' # port.baud_rate =>
               /\ tx' = into_raw(set_baud(arg'))
               /\ events' # events
               /\ events'[Len(events) + 1].call = "send_raw"
        /\ port'.baud_rate # port.baud_rate =>
               /\ port'.baud_rate = arg'
               /\ events' # events /\ resp'.tag = "Ok"
               /\ ~(Len(resp'.payload) > 0 /\ resp'.payload[1] = 254)
        /\ RejectedNow => port'.baud_rate = kept /\ err' = ""

TransferFailedNow ==
    /\ events' # events
    /\ \/ ~events'[Len(events')].ok
       \/ rx' # <<>> /\ resp'.tag = "None"

Ended == pc \in {"failed", "panicked", "done"}

\* C25: no operation of the engine retries.  A step sends at most one command;
\* when its transfer fails, or a check on the response fails (an error message
\* is set), the operation has ended with that error in the same step; and once
\* an operation has ended nothing more is sent, so no command is sent again
NoRetryStep ==
    /\ Len(events') <= Len(events) + 2
    /\ Len(sent') <= Len(sent) + 1
    /\ TransferFailedNow => pc' = "failed" /\ err' # ""
    /\ err' # "" => pc' \in {"failed", "panicked"}
    /\ Ended => events' = events /\ sent' = sent /\ tx' = tx

\* C25: no step retries a failed transfer: the step on which a transfer fails
\* ends the operation with the error, and an ended operation sends nothing more
C25_NoRetry == [][NoRetryStep]_vars

\* a flash stopped by the failed transfer of its second PROGRAM: ISP_KEY and one
\* PROGRAM were sent before it, each once, and nothing after it
C25_Witness ==
    /\ op = "flash" /\ pc = "failed"
    /\ Len(sent) = 6
    /\ sent[4].type = "IspKey" /\ sent[5].type = "Program" /\ sent[6].type = "Program"
    /\ sent[5].address # sent[6].address
    /\ events[Len(events)] = [call |-> "recv_raw", ok |-> FALSE]

\* C26: the transport is used request by request: a recv_raw is attempted only
\* right after a send_raw that succeeded, and every send_raw that succeeded is
\* followed by one recv_raw before anything else is sent
C26_RequestByRequest ==
    \A i \in 1..Len(events) :
        /\ events[i].call = "recv_raw" =>
               i > 1 /\ events[i - 1] = [call |-> "send_raw", ok |-> TRUE]
        /\ events[i] = [call |-> "send_raw", ok |-> TRUE] =>
               i < Len(events) /\ events[i + 1].call = "recv_raw"
        /\ events[i] = [call |-> "send_raw", ok |-> FALSE] => i = Len(events)

\* a verify that went through two chunks: six requests, each answered before the
\* next was sent
C26_Witness ==
    /\ op = "verify" /\ pc = "done"
    /\ Len(sent) = 6 /\ Len(events) = 12
    /\ \A i \in 1..6 : events[2 * i - 1].call = "send_raw" /\ events[2 * i].call = "recv_raw"

-----------------------------------------------------------------------------
(* main.rs, Commands::Flash: the firmware file is read, padded, and the     *)
(* number of sectors to erase is computed from the padded image             *)

FirmwareLens == (0..120) \cup {1023, 1024, 1025, 2047, 2048, 2049, 3000}

InitFirmware ==
    /\ cli = "flash" /\ pc = "read_firmware" /\ opts = NoOpts
    /\ err = "" /\ chip = NoChip /\ chip_uid = <<>>
    /\ bootloader_version = <<0, 0, 0, 0>> /\ code_flash_protected = FALSE
    /\ identified = <<>>
    /\ key = <<>> /\ address = 0 /\ op = "open"
    /\ tx = <<>> /\ rx = <<>> /\ resp = NoResp /\ sent = <<>>
    /\ binary = <<>> /\ arg = 0 /\ current = <<>> /\ ret = <<>>
    /\ families = <<>> /\ events = <<>> /\ port = NoPort
    /\ raw \in {Image(n) : n \in FirmwareLens}

\* let mut binary = read_firmware_from_file(path)?;
\* extend_firmware_to_sector_boundary(&mut binary);
\* let sectors = binary.len() / SECTOR_SIZE + 1
ReadFirmware ==
    /\ cli = "flash" /\ pc = "read_firmware"
    /\ binary' = extend_firmware_to_sector_boundary(raw)
    /\ arg' = (Len(binary') \div SECTOR_SIZE) + 1
    /\ op' = "read_firmware"
    /\ pc' = "erase_code"
    /\ UNCHANGED <<cli, err, current, ret, families, wire, session, key, raw, address,
                   tx, rx, resp, sent, opts>>

NextFirmware == ReadFirmware

SpecFirmware == InitFirmware /\ [][NextFirmware]_vars

-----------------------------------------------------------------------------
\* C27: in the flash workflow the image is extended with zero bytes to the
\* smallest multiple of 1024 not below its length, its own bytes unchanged (an
\* image that is a multiple of 1024 already, the empty one included, is left as
\* it is), and the sector count for erase_code is padded length / 1024 + 1
C27_PaddedImage ==
    op = "read_firmware" =>
        /\ Len(binary) % 1024 = 0
        /\ Len(binary) >= Len(raw) /\ Len(binary) - Len(raw) < 1024
        /\ \A i \in 1..Len(raw) : binary[i] = raw[i]
        /\ \A i \in (Len(raw) + 1)..Len(binary) : binary[i] = 0
        /\ Len(raw) % 1024 = 0 => binary = raw
        /\ arg * 1024 = Len(binary) + 1024

\* a file of 1025 bytes: padded to 2048, 3 sectors to erase
C27_Witness ==
    /\ op = "read_firmware"
    /\ Len(raw) = 1025 /\ Len(binary) = 2048 /\ binary[1025] = raw[1025] /\ binary[1026] = 0
    /\ arg = 3

\* the Flash command hands erase_code the sector count of the padded image
FlashCmdErases ==
    (cli = "flash" /\ op = "erase_code") =>
        /\ Len(binary) % 1024 = 0
        /\ arg = (Len(binary) \div 1024) + 1

IsDataErase(c) == c.type = "DataErase"

\* max(1, ceil(E / 1024))
SectorsOf(E) == IF E <= 1024 THEN 1 ELSE (E + 1023) \div 1024

\* C28 (as claimed): erase_data on a chip with eeprom_size E > 0 sends one
\* DATA_ERASE whose sector count is max(1, ceil(E / 1024)), and the one-byte
\* sector field of the frame carries that number
C28_EraseDataSectors ==
    (op = "erase_data" /\ chip.eeprom_size > 0) =>
        /\ Len(SinceOpen) <= 1
        /\ pc = "done" => Len(SinceOpen) = 1
        /\ Len(tx) > 0 /\ tx[1] = DATA_ERASE /\ tx[Len(tx)] = SectorsOf(chip.eeprom_size)
        /\ \A i \in 1..Len(SinceOpen) :
               /\ IsDataErase(SinceOpen[i])
               /\ SinceOpen[i].sectors = SectorsOf(chip.eeprom_size)

\* what erase_data sends: floor(E / 1024) sectors, 1 at least
EraseDataFloor ==
    (op = "erase_data" /\ chip.eeprom_size > 0) =>
        /\ Len(SinceOpen) <= 1
        /\ pc = "done" => Len(SinceOpen) = 1
        /\ \A i \in 1..Len(SinceOpen) :
               /\ IsDataErase(SinceOpen[i])
               /\ SinceOpen[i].sectors =
                      (IF chip.eeprom_size < 1024 THEN 1 ELSE chip.eeprom_size \div 1024)

\* C29 (as claimed): the DATA_ERASE request frame is a9, the little-endian
\* length 7, and the 7-byte payload [0, 0, 0, 0, sector count, 0, 0]
C29_DataEraseFrame ==
    (op = "into_raw" /\ sent[1].type = "DataErase") =>
        tx = <<169, 7, 0, 0, 0, 0, 0, sent[1].sectors % 256, 0, 0>>

\* C30 (as claimed): every WRITE_CONFIG sent with mask 0x07, by unprotect,
\* reset_config, enable_debug or disable_debug, carries exactly the 12 register
\* bytes the mask covers, however many bytes the READ_CONFIG reply before it had
C30_TwelveBytes ==
    \A i \in 1..Len(sent) :
        (sent[i].type = "WriteConfig" /\ sent[i].bit_mask = 7) => Len(sent[i].data) = 12

\* unprotect alone always writes 12 bytes
UnprotectTwelveBytes ==
    op = "unprotect" =>
        \A i \in 1..Len(sent) : sent[i].type = "WriteConfig" => Len(sent[i].data) = 12

-----------------------------------------------------------------------------
\* the device type a family's mcu_type stands for
TypeOfFamily(family) == family.device_type = family.mcu_type + 16

\* C31 (as claimed): a load that succeeds leaves only families with
\* device_type = mcu_type + 0x10, and a catalog with a family record that
\* violates it is rejected
C31_DeviceTypes ==
    op = "load" =>
        /\ pc = "done" => \A i \in 1..Len(families) : TypeOfFamily(families[i])
        /\ (\E i \in 1..Len(arg) : ~TypeOfFamily(arg[i])) => pc = "failed"

-----------------------------------------------------------------------------
(* Flashing::dump_config on an open session.  A u32 is kept as its 32 bits, *)
(* bit 0 first; overflow_checks is the build's setting: on, an arithmetic   *)
(* overflow panics, off, it wraps.                                          *)

BitsOf(bytes) == [i \in 0..31 |-> Bit(bytes[(i \div 8) + 1], i % 8)]
BytesOf(bits) ==
    [k \in 1..4 |->
        LET b == 8 * (k - 1)
        IN  bits[b] + 2 * bits[b + 1] + 4 * bits[b + 2] + 8 * bits[b + 3]
            + 16 * bits[b + 4] + 32 * bits[b + 5] + 64 * bits[b + 6] + 128 * bits[b + 7]]

\* raw.pread_with::<u32>(offset, LE): <<>> for an Err
pread_u32(buf, offset) ==
    IF offset + 4 > Len(buf) THEN <<>> ELSE SubSeq(buf, offset + 1, offset + 4)

\* n >> k on a u32: a shift of 32 or more overflows (wraps to k % 32)
u32_shr(bits, k) ==
    [overflow |-> k > 31,
     bits |-> [i \in 0..31 |-> IF i + (k % 32) <= 31 THEN bits[i + (k % 32)] ELSE 0]]

\* 2_u32.pow(w): 2^w does not fit a u32 from w = 32 on (wraps to 0)
u32_pow2(w) ==
    [overflow |-> w > 31, bits |-> [i \in 0..31 |-> IF i = w THEN 1 ELSE 0]]

\* x - 1 on a u32: 0 - 1 overflows (wraps to 0xffffffff)
u32_sub1(bits) ==
    LET ones == {i \in 0..31 : bits[i] = 1}
    IN  IF ones = {} THEN [overflow |-> TRUE, bits |-> [i \in 0..31 |-> 1]]
        ELSE LET j == CHOOSE i \in ones : \A k \in ones : i <= k
             IN  [overflow |-> FALSE,
                  bits |-> [i \in 0..31 |-> IF i < j THEN 1 ELSE IF i = j THEN 0 ELSE bits[i]]]

u32_and(a, b) == [i \in 0..31 |-> a[i] * b[i]]

\* let bit_width = (bit_range[0] - bit_range[1]) as u32 + 1;
\* let b = (n >> bit_range[1]) & (2_u32.pow(bit_width) - 1);
decode_field(n, bit_range, overflow_checks) ==
    LET diff == bit_range[1] - bit_range[2]
        bit_width == U8(diff) + 1
        shifted == u32_shr(BitsOf(n), bit_range[2])
        power == u32_pow2(bit_width)
        mask == u32_sub1(power.bits)
        overflows == diff < 0 \/ shifted.overflow \/ power.overflow \/ mask.overflow
    IN  IF overflows /\ overflow_checks
        THEN [st |-> "panic", b |-> <<>>]
        ELSE [st |-> "ok", b |-> BytesOf(u32_and(shifted.bits, mask.bits))]

\* one turn of `for reg_def in &self.chip.config_registers`: [st, printed]
dump_register(raw_bytes, reg, overflow_checks) ==
    LET n == pread_u32(raw_bytes, reg.offset)
        fields == [j \in 1..Len(reg.fields) |->
                      decode_field(n, reg.fields[j].bit_range, overflow_checks)]
    IN  IF n = <<>> THEN [st |-> "err", printed |-> <<>>]
        ELSE IF \E j \in 1..Len(fields) : fields[j].st = "panic"
             THEN [st |-> "panic", printed |-> <<>>]
        ELSE [st |-> "ok", printed |-> [j \in 1..Len(fields) |-> fields[j].b]]

\* READ_CONFIG(0x1f) replies: those of the session open and one with DATA 0x80000001
DumpConfigPayloads ==
    ConfigPayloads \cup
    {<<31, 0, 165, 90, 63, 192, 1, 0, 0, 128, 255, 255, 255, 255, 0, 2, 7, 0,
       1, 2, 3, 4, 5, 6, 9, 12>>}

\* the bit ranges of a field within a u32
FieldRanges == {r \in (0..31) \X (0..31) : r[1] >= r[2]}

DumpOffsets == {0, 4, 28}

DumpChips ==
    {[find_chip(105, 23).chip EXCEPT !.config_registers = <<RecordRegister(o, r)>>] :
        o \in DumpOffsets, r \in FieldRanges}

InitDumpConfig ==
    /\ cli = "api" /\ pc = "ready" /\ opts = NoOpts
    /\ err = ""
    /\ chip \in DumpChips
    /\ identified = <<chip.chip_id, chip.device_type>>
    /\ chip_uid = <<1, 2, 3, 4, 5, 6, 9, 12>>
    /\ bootloader_version = <<0, 2, 7, 0>>
    /\ code_flash_protected = FALSE
    /\ key = <<>> /\ raw = <<>> /\ address = 0 /\ op = "open"
    /\ tx = into_raw(read_config(CFG_MASK_ALL))
    /\ rx = Frame(READ_CONFIG, 0, ConfigPayload(165, chip_uid))
    /\ resp = ResponseOk(ConfigPayload(165, chip_uid))
    /\ sent = <<identify(0, 0), identify(0, 0), read_config(CFG_MASK_ALL)>>
    /\ binary = <<>> /\ arg = 0 /\ current = <<>> /\ ret = <<>>
    /\ families = <<>>
    /\ events = transport_calls(IoFrame(rx)) \o transport_calls(IoFrame(rx))
                    \o transport_calls(IoFrame(rx))
    /\ port = NoPort

\* Flashing::dump_config: ret is what it printed of the fields, register by
\* register; arg is the build's overflow_checks
DumpConfig ==
    /\ pc = "ready" /\ cli = "api"
    /\ op' = "dump_config"
    /\ \E io \in Replies(READ_CONFIG, DumpConfigPayloads, <<31, 0>>),
          overflow_checks \in BOOLEAN :
        LET cmd == read_config(CFG_MASK_ALL)
            r == transfer(cmd, io)
            p == payload(r.resp)
            regs == chip.config_registers
            dumped == [i \in 1..Len(regs) |->
                          dump_register(SliceFrom(p, 2), regs[i], overflow_checks)]
            bad == FirstIndex({i \in 1..Len(regs) : dumped[i].st # "ok"})
        IN  /\ RoundTrip(cmd, io, r)
            /\ arg' = overflow_checks
            /\ IF r.st # "ok" THEN Stop(r) /\ UNCHANGED <<current, ret>>
               ELSE IF ~is_ok(r.resp)
                    THEN Fail("read_config failed") /\ UNCHANGED <<current, ret>>
               ELSE IF Len(p) < 2
                    THEN Panic("index out of bounds") /\ UNCHANGED <<current, ret>>
               ELSE /\ current' = SliceFrom(p, 2)
                    /\ IF bad = 0
                       THEN /\ ret' = [i \in 1..Len(regs) |-> dumped[i].printed]
                            /\ pc' = "done" /\ err' = err
                       ELSE /\ ret' = ret
                            /\ IF dumped[bad].st = "err" THEN Fail("bad offset")
                               ELSE Panic("attempt to multiply with overflow")
    /\ UNCHANGED <<cli, families, session, key, raw, address, opts, binary>>

NextDumpConfig == DumpConfig

SpecDumpConfig == InitDumpConfig /\ [][NextDumpConfig]_vars

-----------------------------------------------------------------------------
\* (v >> low) & ((1 << (high - low + 1)) - 1): bit i of the field is bit
\* low + i of v for i <= high - low, and 0 above
FieldOf(v, high, low) ==
    BytesOf([i \in 0..31 |-> IF i <= high - low THEN BitsOf(v)[low + i] ELSE 0])

\* the register bytes a dump that received them decodes
DumpedRegister(i) == pread_u32(current, chip.config_registers[i].offset)

\* C32 (as claimed): a dump_config whose READ_CONFIG reply holds every register
\* of the chip succeeds, and what it decodes of each field [high, low] of a
\* register value v is (v >> low) & ((1 << (high - low + 1)) - 1), for every
\* 0 <= low <= high <= 31, [31, 0] included
C32_FieldsDecoded ==
    (/\ op = "dump_config" /\ rx # <<>> /\ resp.tag = "Ok" /\ Len(resp.payload) >= 2
     /\ \A i \in 1..Len(chip.config_registers) :
            chip.config_registers[i].offset + 4 <= Len(resp.payload) - 2)
    => /\ pc = "done"
       /\ \A i \in 1..Len(chip.config_registers) :
            LET reg == chip.config_registers[i] IN
            /\ Len(ret[i]) = Len(reg.fields)
            /\ \A j \in 1..Len(reg.fields) :
                ret[i][j] = FieldOf(DumpedRegister(i), reg.fields[j].bit_range[1],
                                    reg.fields[j].bit_range[2])

\* what holds instead: the decoding is as claimed for every field narrower than
\* 32 bits and, in a build without overflow checks, for [31, 0] too; with
\* overflow checks a register with a field [31, 0] makes dump_config panic
DumpConfigDecodes ==
    (/\ op = "dump_config" /\ rx # <<>> /\ resp.tag = "Ok" /\ Len(resp.payload) >= 2
     /\ \A i \in 1..Len(chip.config_registers) :
            chip.config_registers[i].offset + 4 <= Len(resp.payload) - 2)
    => LET full == \E i \in 1..Len(chip.config_registers) :
                       \E j \in 1..Len(chip.config_registers[i].fields) :
                           chip.config_registers[i].fields[j].bit_range = <<31, 0>>
       IN  IF full /\ arg
           THEN pc = "panicked"
           ELSE /\ pc = "done"
                /\ \A i \in 1..Len(chip.config_registers) :
                     LET reg == chip.config_registers[i] IN
                     \A j \in 1..Len(reg.fields) :
                         ret[i][j] = FieldOf(DumpedRegister(i), reg.fields[j].bit_range[1],
                                             reg.fields[j].bit_range[2])

-----------------------------------------------------------------------------
\* C33 (as claimed): a dropped serial transport has its port at 115200 baud,
\* whatever the device answered, or did not answer, to the SET_BAUD(115200) of
\* the drop; and a drop that found the port at another rate has sent that
\* SET_BAUD
C33_DropRestores ==
    pc = "dropped" =>
        /\ port.baud_rate = 115200
        /\ op = "set_baudrate" /\ arg = 115200

\* what the drop does: the port is left at the higher rate only when the
\* SET_BAUD(115200) of the drop failed, was answered under an error, was
\* answered with 0xfe, or when the port refused the rate
DropRestoresWhenAnswered ==
    (pc = "dropped" /\ port.baud_rate # 115200) =>
        /\ tx = into_raw(set_baud(115200))
        /\ \/ err # ""
           \/ resp.tag = "Ok" /\ Len(resp.payload) > 0 /\ resp.payload[1] = 254

-----------------------------------------------------------------------------
\* the last round trip brought a frame back
FrameReceived == events # <<>> /\ events[Len(events)] = [call |-> "recv_raw", ok |-> TRUE]

\* the payload of the reply is shorter than what the engine reads of it
PayloadTooShort ==
    /\ resp.tag = "Ok" /\ sent # <<>>
    /\ LET c == sent[Len(sent)]
           n == Len(resp.payload)
       IN  \/ c.type = "Identify" /\ Len(sent) = 2 /\ n < 2
           \/ c.type = "ReadConfig" /\ op = "open" /\ n < 26
           \/ c.type = "ReadConfig" /\ op = "unprotect" /\ n < 14
           \/ c.type \in {"IspKey", "Verify"} /\ op \in {"flash", "verify"} /\ n < 1

\* C34 (as claimed): an operation that received an empty frame, a frame of fewer
\* than 4 bytes or a reply with a payload shorter than the fields read from it
\* has returned an error to its caller: it has not aborted the program
C34_ShortFrames ==
    (FrameReceived /\ (Len(rx) < 4 \/ PayloadTooShort)) => pc = "failed" /\ err # ""

-----------------------------------------------------------------------------
(* Flashing::xor_key and the checksum of the key on their own: the chip and *)
(* the UID bytes of the session are the inputs                              *)

ExampleUid == <<170, 187, 204, 221, 238, 255, 0, 17>>

KeyUids ==
    {ExampleUid, <<1, 2, 3, 4, 5, 6, 9, 12>>, <<170, 187, 204, 221, 238, 255, 100, 153>>,
     <<1, 2, 3, 4>>}
    \cup {[i \in 1..8 |-> (a * i + b) % 256] : a \in {0, 1, 37, 255}, b \in {0, 7, 128, 255}}

KeyChips ==
    {find_chip(id[1], id[2]).chip :
        id \in {<<105, 23>>, <<105, 16>>, <<82, 17>>, <<113, 23>>, <<128, 25>>, <<80, 35>>}}

InitXorKey ==
    /\ cli = "api" /\ pc = "xor_key" /\ opts = NoOpts
    /\ err = ""
    /\ chip \in KeyChips
    /\ identified = <<chip.chip_id, chip.device_type>>
    /\ chip_uid \in KeyUids
    /\ bootloader_version = <<0, 2, 7, 0>>
    /\ code_flash_protected = FALSE
    /\ key = <<>> /\ raw = <<>> /\ address = 0 /\ op = "open"
    /\ tx = <<>> /\ rx = <<>> /\ resp = NoResp /\ sent = <<>>
    /\ binary = <<>> /\ arg = 0 /\ current = <<>> /\ ret = <<>>
    /\ families = <<>> /\ events = <<>> /\ port = NoPort

\* let key = self.xor_key(); let key_checksum = key.iter().fold(0_u8, ..)
DeriveKey ==
    /\ pc = "xor_key"
    /\ op' = "xor_key"
    /\ IF chip_uid_panics(chip, chip_uid)
       THEN Panic("index out of bounds") /\ UNCHANGED <<key, arg>>
       ELSE /\ key' = xor_key(chip, chip_uid)
            /\ arg' = key_checksum(key')
            /\ pc' = "done" /\ err' = err
    /\ UNCHANGED <<cli, current, ret, families, wire, session, raw, address,
                   tx, rx, resp, sent, opts, binary>>

NextXorKey == DeriveKey

SpecXorKey == InitXorKey /\ [][NextXorKey]_vars

-----------------------------------------------------------------------------
\* the key and its checksum have been derived for the UID aa bb cc dd ee ff 00 11
\* and chip id 0x69, the chip having a UID of 8 bytes
ExampleKeyDerived ==
    /\ op = "xor_key" /\ pc = "done"
    /\ chip_uid = ExampleUid /\ chip.chip_id = 105 /\ uid_size(chip) = 8

ExampleUidRefused ==
    (chip_uid = ExampleUid /\ uid_size(chip) = 8) => pc = "failed"

-----------------------------------------------------------------------------
(* Every operation of the engine on a session: the session is opened, then  *)
(* one of flash, verify, erase_code, erase_data, write_eeprom, dump_eeprom, *)
(* dump_config, reset_config, enable_debug, disable_debug, unprotect, reset *)
(* and reidenfity is called.                                                *)

\* Flashing::reset as a library call: ISP_END with reason 1, ensure!(is_ok)
ResetApi ==
    /\ pc = "ready" /\ cli = "api"
    /\ \E io \in Replies(ISP_END, AckPayloads, <<0, 0>>) :
        LET cmd == isp_end(1)
            r == transfer(cmd, io)
        IN  /\ RoundTrip(cmd, io, r)
            /\ IF r.st # "ok" THEN Stop(r)
               ELSE IF ~is_ok(r.resp) THEN Fail("isp_end failed")
               ELSE pc' = "done" /\ err' = err
    /\ op' = "reset"
    /\ UNCHANGED <<cli, scratch, session, key, raw, address, opts, binary>>

\* Flashing::reidenfity: IDENTIFY with the chip's id and type, the two ensure!s
ReidentifyApi ==
    /\ pc = "ready" /\ cli = "api"
    /\ \E io \in Replies(IDENTIFY, IdentifyPayloads, <<105, 23>>) :
        LET cmd == identify(chip.chip_id, chip.device_type)
            r == transfer(cmd, io)
            p == payload(r.resp)
        IN  /\ RoundTrip(cmd, io, r)
            /\ IF r.st # "ok" THEN Stop(r)
               ELSE IF Len(p) < 2 THEN Panic("index out of bounds")
               ELSE IF p[1] # chip.chip_id THEN Fail("chip id mismatch")
               ELSE IF p[2] # chip.device_type THEN Fail("device type mismatch")
               ELSE pc' = "reidentify_read_config" /\ err' = err
    /\ op' = "reidenfity"
    /\ UNCHANGED <<cli, scratch, session, key, raw, address, opts, binary>>

\* let _ = self.transport.transfer(Command::read_config(CFG_MASK_ALL))?
ReidentifyReadConfig ==
    /\ pc = "reidentify_read_config"
    /\ \E io \in Replies(READ_CONFIG, ConfigPayloads, <<31, 0>>) :
        LET cmd == read_config(CFG_MASK_ALL)
            r == transfer(cmd, io)
        IN  /\ RoundTrip(cmd, io, r)
            /\ IF r.st # "ok" THEN Stop(r) ELSE pc' = "done" /\ err' = err
    /\ UNCHANGED <<cli, scratch, session, locals, opts, binary>>

NextOps ==
    \/ Next
    \/ EraseData
    \/ DumpEepromApi
    \/ DataRead
    \/ DumpConfig
    \/ ResetApi
    \/ ReidentifyApi
    \/ ReidentifyReadConfig

SpecOps == Init /\ [][NextOps]_vars

-----------------------------------------------------------------------------
FramedOps == {"open", "flash", "verify", "write_eeprom", "dump_eeprom", "unprotect"}

\* C36: every request frame that session open, flash, verify, write_eeprom,
\* dump_eeprom and unprotect send is at most 64 bytes long, and every DATA_READ
\* asks for at most 0x3a bytes, so that its reply (4 header bytes, 2 echo bytes
\* and the data) fits in 64 bytes as well
C36_FramesFit ==
    /\ op \in FramedOps => Len(tx) <= MAX_PACKET_SIZE
    /\ \A i \in 1..Len(sent) :
        IsDataRead(sent[i]) =>
            /\ sent[i].len <= READ_CHUNK
            /\ 4 + 2 + sent[i].len <= MAX_PACKET_SIZE

\* a flash has sent a PROGRAM with a whole piece of 56 bytes: a frame of 64 bytes
C36_Witness ==
    /\ op = "flash" /\ sent # <<>>
    /\ IsProgram(sent[Len(sent)]) /\ Len(sent[Len(sent)].data) = CHUNK
    /\ tx = into_raw([sent[Len(sent)] EXCEPT !.type = "Program"]
                        @@ [padding |-> tx[8]])
    /\ Len(tx) = MAX_PACKET_SIZE

\* a dump_eeprom has asked for a whole piece of 0x3a bytes and got it
DataReadWhole ==
    /\ op = "dump_eeprom" /\ Len(ret) >= READ_CHUNK
    /\ \E i \in 1..Len(sent) : IsDataRead(sent[i]) /\ sent[i].len = READ_CHUNK

-----------------------------------------------------------------------------
\* the session is open: new_from_transport has returned it
SessionOpen == pc \notin {"open_identify", "open_get_chip", "open_read_config"}

\* a step taken with the session open leaves the chip, the UID, the bootloader
\* version and the code_flash_protected flag of the session as they are
SessionKeptStep ==
    SessionOpen =>
        /\ chip' = chip
        /\ chip_uid' = chip_uid
        /\ bootloader_version' = bootloader_version
        /\ code_flash_protected' = code_flash_protected

\* C37: once a session is open, no step of flash, verify, erase_code, erase_data,
\* write_eeprom, dump_eeprom, dump_config, reset_config, enable_debug,
\* disable_debug, unprotect, reset or reidenfity, successful or failed, changes
\* the session's chip, UID, bootloader version or code_flash_protected flag; the
\* flag still reads true after a successful unprotect
C37_SessionKept == [][SessionKeptStep]_vars

\* an unprotect has written the configuration and reset the chip, and the flag
\* of the session still says protected
C37_Witness ==
    /\ op = "unprotect" /\ pc = "done"
    /\ code_flash_protected
    /\ \E i \in 1..Len(sent) : sent[i].type = "WriteConfig"
    /\ sent[Len(sent)].type = "IspEnd"

-----------------------------------------------------------------------------
\* the families of the loaded catalog with a device type, the variants of a
\* family with a primary id
LoadedOf(dt) == {i \in 1..Len(families) : families[i].device_type = dt}
PrimariesOf(f, id) == {v \in 1..Len(f.variants) : f.variants[v].chip_id = id}

\* the chip is the one find_chip makes of variant v of family f
MadeOf(f, v) ==
    /\ chip.name = f.variants[v].name
    /\ chip.flash_size = f.variants[v].flash_size
    /\ chip.eeprom_size = f.variants[v].eeprom_size
    /\ chip.config_registers =
           IF Len(f.variants[v].config_registers) = 0 THEN f.config_registers
           ELSE f.variants[v].config_registers

\* C38 (as claimed): when a variant of the matching family has the queried id as
\* its primary id, find_chip returns that variant, with its flash size, EEPROM
\* size and registers, even if an earlier variant names the id as an alternate
\* id or by the "all" marker
C38_PrimaryWins ==
    (op = "find_chip" /\ LoadedOf(identified[2]) # {}) =>
        LET f == families[EarliestOf(LoadedOf(identified[2]))]
        IN  PrimariesOf(f, identified[1]) # {} =>
                /\ pc = "done"
                /\ \E v \in PrimariesOf(f, identified[1]) : MadeOf(f, v)

\* what find_chip does: the first variant in catalog order that answers to the
\* id, by primary or by alternate id, is the one returned
FindLoadedFirstMatch ==
    (op = "find_chip" /\ LoadedOf(identified[2]) # {}) =>
        LET f == families[EarliestOf(LoadedOf(identified[2]))]
        IN  VariantsFor(f, identified[1]) # {} =>
                /\ pc = "done"
                /\ MadeOf(f, EarliestOf(VariantsFor(f, identified[1])))

-----------------------------------------------------------------------------
-----------------------------------------------------------------------------
\* the last DATA_READ of dump_eeprom was answered, with an ok status, by the two
\* echo bytes and exactly the number of bytes it asked for
ExactReply ==
    /\ op = "dump_eeprom" /\ Len(sent) > 0 /\ sent[Len(sent)].type = "DataRead"
    /\ Len(tx) > 0 /\ tx[1] = DATA_READ
    /\ resp.tag # "None" /\ is_ok(resp)
    /\ Len(payload(resp)) = 2 + sent[Len(sent)].len

\* C40 (as claimed): dump_eeprom does not fail after a DATA_READ reply that carries
\* exactly the requested number of bytes, a final 2-byte chunk (eeprom_size mod
\* 0x3a = 2) whose bytes are fe 00 included, and when it returns it returns the
\* eeprom_size bytes
C40_ExactReplies ==
    ExactReply =>
        /\ pc # "failed"
        /\ pc = "done" => Len(ret) = chip.eeprom_size

\* what holds: a reply of exactly the requested length fails dump_eeprom only as
\* the two bytes fe 00 of a 2-byte chunk, or on a size that does not fit 16 bits
ExactReplyFailures ==
    (ExactReply /\ pc = "failed") =>
        \/ /\ sent[Len(sent)].len = 2
           /\ SliceFrom(payload(resp), 2) = <<254, 0>>
           /\ err = "EEPROM read failed, required chunk size cannot be satisfied"
        \/ /\ chip.eeprom_size >= 65536
           /\ err = "EEPROM size mismatch"

\* a final 2-byte chunk answered with fe 00 is refused
FinalSentinelChunk ==
    ( /\ ExactReply
      /\ chip.eeprom_size = READ_CHUNK + 2
      /\ sent[Len(sent)].address = READ_CHUNK
      /\ SliceFrom(payload(resp), 2) = <<254, 0>> )
    => (pc = "failed" /\ ret = EepromData(0, READ_CHUNK))

====
